---- MODULE Spec2Model ----
(***************************************************************************)
(* Model of the end-to-end-encryption metadata jobs of the sync client.    *)
(*                                                                         *)
(* UpdateE2eeFolderUsersMetadataJob (updatee2eefolderusersmetadatajob.cpp) *)
(* is an asynchronous chain of Qt slots.  Every slot is one action: the    *)
(* action is taken when the collaborator (keychain, server, metadata       *)
(* handler) answers the request that is outstanding, its inputs are what   *)
(* the collaborator answers, and everything the slot calls synchronously   *)
(* (a sub-job's start(), the parent's slotSubJobFinished, ...) is part of  *)
(* the same action.  Job 0 is the job the caller created; job r > 0 is the *)
(* ReEncrypt sub-job created for journal record r.                         *)
(***************************************************************************)
EXTENDS Integers, Sequences, FiniteSets, TLC

\* ------------------------------------------------------------------ bounds
\* number of journal records getFilesBelowPath may report below the folder
MaxRecords == 2

\* number of calls of scheduleSelfOrChild the scheduler makes on a job
MaxCalls == 2

\* ------------------------------------------------------- program constants
HttpOk == 200
CertNotFound == 404
MetadataInvalid == 403
GenericError == -1

\* the job the caller created; job r > 0 is the sub-job of journal record r
TopJob == 0
Records == 1..MaxRecords
Jobs == {TopJob} \cup Records

\* enum UpdateE2eeFolderUsersMetadataJob::Operation
Operations == {"Invalid", "Add", "Remove", "ReEncrypt"}

\* status codes the handler reports with fetchFinished / uploadFinished /
\* folderUnlocked
HandlerStatuses == {HttpOk, 500}

\* mangled names of the directories below the folder (sub-job paths)
Names == {"d1", "d2"}

\* SyncFileItem::EncryptionStatus values that occur
ItemInitialStatus == "Encrypted"
MetadataStatuses == {"EncryptedMigratedV2_0"}

\* A key is a byte string written as a decimal number, one digit (1..9) a
\* byte; 0 is the empty key.
EmptyKey == 0

\* metadataKeySize (16 in the source), in bytes, scaled down
MetadataKeySize == 2

\* QByteArray::size and QByteArray(data, size) of a key
RECURSIVE KeySize(_)
KeySize(key) == IF key = EmptyKey THEN 0 ELSE 1 + KeySize(key \div 10)

RECURSIVE KeyLeft(_, _)
KeyLeft(key, size) == IF KeySize(key) <= size THEN key ELSE KeyLeft(key \div 10, size)

\* EncryptionHelper::generateRandom(size): the n-th call gives size bytes n
RECURSIVE GenerateRandom(_, _)
GenerateRandom(n, size) == IF size = 0 THEN EmptyKey ELSE GenerateRandom(n, size - 1) * 10 + n

\* calcSha256
CalcSha256(data) == [sha256 |-> data]

\* the keys of a folder's metadata the jobs read: metadataKeyForEncryption(),
\* metadataKeyForDecryption(), keyChecksums(), keyChecksumsRemoved()
NoMetadataKeys ==
    [metadataKeyForEncryption |-> EmptyKey, metadataKeyForDecryption |-> EmptyKey,
     keyChecksums |-> {}, keyChecksumsRemoved |-> {}]

\* a metadata whose key was never replaced, and one whose key was replaced
MetadataKeys ==
    LET first == GenerateRandom(1, MetadataKeySize)
        second == GenerateRandom(2, MetadataKeySize)
    IN {[metadataKeyForEncryption |-> first, metadataKeyForDecryption |-> first,
         keyChecksums |-> {CalcSha256(first)}, keyChecksumsRemoved |-> {}],
        [metadataKeyForEncryption |-> second, metadataKeyForDecryption |-> first,
         keyChecksums |-> {CalcSha256(second)},
         keyChecksumsRemoved |-> {CalcSha256(first)}]}

\* what folderMetadata() of a handler can be: null, invalid, or valid with
\* an encryptedMetadataEncryptionStatus() and its keys
NullMetadata == [state |-> "null", status |-> "NotEncrypted", keys |-> NoMetadataKeys]
Metadatas ==
    {NullMetadata, [state |-> "invalid", status |-> "NotEncrypted", keys |-> NoMetadataKeys]}
        \cup {[state |-> "valid", status |-> st, keys |-> k] :
                  st \in MetadataStatuses, k \in MetadataKeys}

\* the folder token of a handler that holds no lock, and the one the server
\* gives with the lock
NoToken == ""
Tokens == {NoToken, "token"}

\* _metadataKeyForEncryption, _metadataKeyForDecryption, _keyChecksums and
\* _folderToken of a job nobody has set
NoJobKeys ==
    [metadataKeyForEncryption |-> EmptyKey, metadataKeyForDecryption |-> EmptyKey,
     keyChecksums |-> {}, folderToken |-> NoToken]

\* a record the journal holds below the folder: a file, or a directory with
\* its mangled name
FileRecord == [kind |-> "file", name |-> "d1"]
JournalRecords == {FileRecord} \cup {[kind |-> "dir", name |-> n] : n \in Names}

\* what getFilesBelowPath visits, record by record
Journals == [Records -> JournalRecords]

\* the journal when nothing reads it
NoJournal == [r \in Records |-> FileRecord]

VARIABLES
    operation,             \* _operation of each job ("None": not created)
    folderUserCertificate, \* _folderUserCertificate: "null" or "cert"
    pending,               \* the request of the job that is outstanding
    folderMetadata,        \* _fetchAndUploadE2eeFolderMetadataJob->folderMetadata()
    subJobs,               \* _subJobs of job 0
    path,                  \* _path of each sub-job (the record's mangled name)
    subJobSyncItems,       \* _subJobSyncItems of job 0: name -> absent/null/item
    itemStatus,            \* _e2eEncryptionStatus of the item of each name
    itemStatusRemote,      \* _e2eEncryptionStatusRemote of the item of each name
    finishedCodes,         \* codes each job emitted with finished(), in order
    trace,                 \* each job's calls on, and answers from, its collaborators
    unlockRunning,         \* handler: an unlock request is outstanding
    unlockConnections,     \* connections folderUnlocked -> slotFolderUnlocked
    succeeded,             \* sub-jobs that emitted finished(200) (history)
    failed,                \* sub-jobs that emitted finished with another code (history)
    lastEncryptionStatus,  \* encryptionStatus() of the sub-job that succeeded last (history)
    jobKeys,               \* the keys, key checksums and folder token set on each job
    folderToken,           \* folderToken() of each job's handler
    mj,                    \* the UpdateE2eeFolderMetadataJob and its item
    propagator,            \* OwncloudPropagator: local directory, journal, pin states
    itemJob,               \* the PropagateLocal{Remove,Mkdir,Rename} job and its item
    fm,                    \* a FolderMetadata
    fmHistory,             \* the last call on it, its result, the keys handed out (history)
    setup,                 \* a FolderMetadata under construction and its requests
    encryptJob,            \* the EncryptFolderJob, the folder's journal record
    fileDropMetadata       \* a FolderMetadata that holds a file drop

vars == <<operation, folderUserCertificate, pending, folderMetadata, subJobs, path,
          subJobSyncItems, itemStatus, itemStatusRemote, finishedCodes, trace,
          unlockRunning, unlockConnections, succeeded, failed,
          lastEncryptionStatus, jobKeys, folderToken, mj, propagator, itemJob, fm, fmHistory, setup,
          encryptJob,
          fileDropMetadata>>

\* what the end-to-end-encryption jobs never touch
otherVars == <<propagator, itemJob, fm, fmHistory, setup, encryptJob, fileDropMetadata>>

usersVars == <<operation, folderUserCertificate, pending, folderMetadata, subJobs, path,
               subJobSyncItems, itemStatus, itemStatusRemote, finishedCodes, trace,
               unlockRunning, unlockConnections, succeeded, failed, lastEncryptionStatus,
               jobKeys, folderToken>>

\* the state as one value, so that a slot that calls another slot
\* synchronously is the composition of the two
State ==
    [operation |-> operation, folderUserCertificate |-> folderUserCertificate,
     pending |-> pending, folderMetadata |-> folderMetadata, subJobs |-> subJobs,
     path |-> path, subJobSyncItems |-> subJobSyncItems, itemStatus |-> itemStatus,
     itemStatusRemote |-> itemStatusRemote, finishedCodes |-> finishedCodes,
     trace |-> trace, unlockRunning |-> unlockRunning,
     unlockConnections |-> unlockConnections, succeeded |-> succeeded,
     failed |-> failed, lastEncryptionStatus |-> lastEncryptionStatus,
     jobKeys |-> jobKeys, folderToken |-> folderToken]

\* the variables take the values of the state t, which is computed once
Becomes(t) ==
    \E v \in {t} :
        /\ operation' = v.operation
        /\ folderUserCertificate' = v.folderUserCertificate
        /\ pending' = v.pending
        /\ folderMetadata' = v.folderMetadata
        /\ subJobs' = v.subJobs
        /\ path' = v.path
        /\ subJobSyncItems' = v.subJobSyncItems
        /\ itemStatus' = v.itemStatus
        /\ itemStatusRemote' = v.itemStatusRemote
        /\ finishedCodes' = v.finishedCodes
        /\ trace' = v.trace
        /\ unlockRunning' = v.unlockRunning
        /\ unlockConnections' = v.unlockConnections
        /\ succeeded' = v.succeeded
        /\ failed' = v.failed
        /\ lastEncryptionStatus' = v.lastEncryptionStatus
        /\ jobKeys' = v.jobKeys
        /\ folderToken' = v.folderToken
        /\ UNCHANGED <<mj, otherVars>>

\* an entry of a trace: a call the job makes or an answer it receives, with
\* the status code or return value that comes with it (0 when there is none)
Event(what, code) == [ev |-> what, code |-> code]

BoolCode(b) == IF b THEN 1 ELSE 0

\* a call of job j on a collaborator, recorded in the order it is made
Call(s, j, what) == [s EXCEPT !.trace[j] = Append(@, Event(what, 0))]

\* a call that returns a value
CallReturning(s, j, what, code) == [s EXCEPT !.trace[j] = Append(@, Event(what, code))]

\* a signal of a collaborator that reaches a slot of job j
Received(s, j, what, code) == [s EXCEPT !.trace[j] = Append(@, Event(what, code))]

IsMetadataValid(s, j) == s.folderMetadata[j].state = "valid"

IsAddOrRemove(s, j) == s.operation[j] \in {"Add", "Remove"}

\* ------------------------------------------------------------ the handler
\* EncryptedFolderMetadataHandler::unlockFolder: one unlock request per
\* handler at a time; a call made while one is outstanding is dropped
HandlerUnlockFolder(s, j, success) ==
    IF s.unlockRunning[j] THEN s ELSE [s EXCEPT !.unlockRunning[j] = TRUE]

\* EncryptedFolderMetadataHandler::setFolderToken(_folderToken) of job j
SetFolderToken(s, j) == [s EXCEPT !.folderToken[j] = s.jobKeys[j].folderToken]

\* EncryptedFolderMetadataHandler::uploadMetadata(true): a handler without a
\* token locks the folder first, and keeps the lock and its token
HandlerUploadMetadata(s, j) ==
    [Call(s, j, "uploadMetadata")
        EXCEPT !.pending[j] = "upload",
               !.folderToken[j] = IF @ = NoToken THEN "token" ELSE @]

\* what a slot reads besides its arguments: which element values().last()
\* of the QSet _subJobs is, and whether getRootE2eFolderRecord finds a valid
\* record for the job that is started
Inputs == [last : Records, rootOk : BOOLEAN]

\* the inputs when no sub-job can be chosen in the step
NoChoice == {in \in Inputs : in.last = 1}

\* the inputs of a step that starts no job
NoInput == [last |-> 1, rootOk |-> TRUE]

\* the inputs of a step that starts one of the sub-jobs S, if there is one
Choices(S) == IF S = {} THEN {NoInput} ELSE {in \in Inputs : in.last \in S}

\* QSet::values().last(): some element of the set, which one is not specified
Last(S, in) == IF in.last \in S THEN in.last ELSE CHOOSE x \in S : TRUE

\* ----------------------------------- UpdateE2eeFolderUsersMetadataJob slots
RECURSIVE EmitFinished(_, _, _, _), SlotSubJobFinished(_, _, _, _),
          SlotStartE2eeMetadataJobs(_, _, _), Start(_, _, _)

\* unlockFolder(success): connects slotFolderUnlocked (once more on every
\* call) and asks the handler to unlock
UnlockFolder(s, j, success) ==
    LET c == Call(s, j, IF success THEN "unlockFolder(true)" ELSE "unlockFolder(false)")
        d == [c EXCEPT !.unlockConnections[j] = @ + 1]
    IN HandlerUnlockFolder(d, j, success)

SubJobsFinished(s, j, success) == UnlockFolder(s, j, success)

\* SyncFileItem::EncryptionStatus encryptionStatus() const
EncryptionStatus(s, j) ==
    IF ~IsMetadataValid(s, j) THEN "NotEncrypted" ELSE s.folderMetadata[j].status

\* fault: the block updates the local status and forgets the remote one
UpdateSubJobSyncItemLocalOnly(s, job) ==
    LET n == s.path[job]
    IN IF s.subJobSyncItems[n] = "item"
       THEN [s EXCEPT !.itemStatus[n] = EncryptionStatus(s, job),
                      !.subJobSyncItems[n] = "absent"]
       ELSE s

\* the block of slotSubJobFinished under _subJobSyncItemsMutex
UpdateSubJobSyncItem(s, job) ==
    LET n == s.path[job]
    IN IF s.subJobSyncItems[n] = "item"
       THEN [s EXCEPT !.itemStatus[n] = EncryptionStatus(s, job),
                      !.itemStatusRemote[n] = EncryptionStatus(s, job),
                      !.subJobSyncItems[n] = "absent"]
       ELSE s

\* deleteLater(), to which the constructor connects finished: a sub-job and
\* its handler are destroyed when control returns to the event loop, and
\* nothing reads them after the slot
DeleteLater(s, job) ==
    [s EXCEPT !.operation[job] = "None", !.pending[job] = "none", !.path[job] = "d1",
              !.folderMetadata[job] = NullMetadata,
              !.finishedCodes[job] = <<>>, !.trace[job] = <<>>,
              !.jobKeys[job] = NoJobKeys, !.folderToken[job] = NoToken]

\* fault: a failed sub-job ends the run as a success
SlotSubJobFinishedAsSuccess(s, job, code, in) ==
    LET t == IF code = HttpOk THEN UpdateSubJobSyncItem(s, job) ELSE s
        g == IF code = HttpOk
             THEN [t EXCEPT !.subJobs = @ \ {job}, !.succeeded = @ \cup {job},
                            !.lastEncryptionStatus = EncryptionStatus(s, job)]
             ELSE [t EXCEPT !.failed = @ \cup {job}]
        u == DeleteLater(g, job)
    IN IF code # HttpOk \/ u.subJobs = {}
       THEN SubJobsFinished(u, TopJob, TRUE)
       ELSE Start(u, Last(u.subJobs, in), in)

\* slotSubJobFinished(code) of the parent, sender() = job
SlotSubJobFinished(s, job, code, in) ==
    IF code # HttpOk
    THEN SubJobsFinished(DeleteLater([s EXCEPT !.failed = @ \cup {job}], job),
                         TopJob, FALSE)
    ELSE LET t == UpdateSubJobSyncItem(s, job)
             u == DeleteLater([t EXCEPT !.subJobs = @ \ {job},
                                        !.succeeded = @ \cup {job},
                                        !.lastEncryptionStatus = EncryptionStatus(s, job)],
                              job)
         IN IF u.subJobs = {}
            THEN SubJobsFinished(u, TopJob, TRUE)
            ELSE Start(u, Last(u.subJobs, in), in)

\* emit finished(code): the signal of a sub-job is connected to the
\* parent's slotSubJobFinished, which runs before the emit returns
EmitFinished(s, j, code, in) ==
    LET t == [s EXCEPT !.finishedCodes[j] = Append(@, code)]
    IN IF j = TopJob THEN t ELSE SlotSubJobFinished(t, j, code, in)

SlotStartE2eeMetadataJobs(s, j, in) ==
    IF s.operation[j] = "Add" /\ s.folderUserCertificate[j] = "null"
    THEN EmitFinished(s, j, CertNotFound, in)
    ELSE IF ~in.rootOk
    THEN EmitFinished(s, j, CertNotFound, in)
    ELSE [Call(s, j, "fetchMetadata") EXCEPT !.pending[j] = "fetch"]

Start(s, j, in) ==
    LET t == Call(s, j, "start")
    IN IF t.operation[j] \notin {"Add", "Remove", "ReEncrypt"}
       THEN EmitFinished(t, j, GenericError, in)
       ELSE IF t.operation[j] = "Add"
       THEN IF t.folderUserCertificate[j] # "null"
            THEN SlotStartE2eeMetadataJobs(t, j, in)
            ELSE [Call(t, j, "fetchCertificateFromKeyChain")
                     EXCEPT !.pending[j] = "keychain"]
       ELSE SlotStartE2eeMetadataJobs(t, j, in)

SlotCertificateFetchedFromKeychain(s, j, certificate, in) ==
    LET r == Received(s, j, "certificateFetchedFromKeychain", BoolCode(certificate # "null"))
    IN IF certificate = "null"
       THEN [Call(r, j, "getUsersPublicKeyFromServer") EXCEPT !.pending[j] = "server"]
       ELSE SlotStartE2eeMetadataJobs(
                [r EXCEPT !.folderUserCertificate[j] = certificate, !.pending[j] = "none"],
                j, in)

\* fault: the fetch is started without waiting for certificateWriteComplete
SlotCertificatesFetchedFromServerNoWait(s, j, certificate, in) ==
    LET r == Received(s, j, "certificatesFetchedFromServer", BoolCode(certificate # "null"))
        t == [r EXCEPT !.folderUserCertificate[j] = certificate, !.pending[j] = "none"]
    IN IF certificate = "null"
       THEN SlotStartE2eeMetadataJobs(t, j, in)
       ELSE SlotStartE2eeMetadataJobs(Call(t, j, "writeCertificate"), j, in)

SlotCertificatesFetchedFromServer(s, j, certificate, in) ==
    LET r == Received(s, j, "certificatesFetchedFromServer", BoolCode(certificate # "null"))
        t == [r EXCEPT !.folderUserCertificate[j] = certificate]
    IN IF certificate = "null"
       THEN SlotStartE2eeMetadataJobs([t EXCEPT !.pending[j] = "none"], j, in)
       ELSE [Call(t, j, "writeCertificate") EXCEPT !.pending[j] = "write"]

\* certificateWriteComplete is connected to certificateReady, and that to
\* slotStartE2eeMetadataJobs
CertificateReady(s, j, in) ==
    SlotStartE2eeMetadataJobs(
        [Received(s, j, "certificateWriteComplete", 0) EXCEPT !.pending[j] = "none"], j, in)

\* fault: every operation but Remove adds the user
StartUpdateAlwaysMutating(s, j, result, in) ==
    IF s.operation[j] = "Invalid"
    THEN EmitFinished(s, j, GenericError, in)
    ELSE LET mutated ==
                 CallReturning(s, j,
                     IF s.operation[j] = "Remove" THEN "removeUser" ELSE "addUser",
                     BoolCode(result))
         IN IF s.folderMetadata[j].state = "null"
            THEN EmitFinished(s, j, GenericError, in)
            ELSE IF ~result
            THEN EmitFinished(mutated, j, GenericError, in)
            ELSE HandlerUploadMetadata(SetFolderToken(mutated, j), j)

\* result: what addUser / removeUser returns
StartUpdate(s, j, result, in) ==
    IF s.operation[j] = "Invalid"
    THEN EmitFinished(s, j, GenericError, in)
    ELSE LET mutated ==
                 IF IsAddOrRemove(s, j)
                 THEN CallReturning(s, j,
                          IF s.operation[j] = "Add" THEN "addUser" ELSE "removeUser",
                          BoolCode(result))
                 ELSE s
         IN IF IsAddOrRemove(s, j) /\ s.folderMetadata[j].state = "null"
            THEN EmitFinished(s, j, GenericError, in)
            ELSE IF IsAddOrRemove(s, j) /\ ~result
            THEN EmitFinished(mutated, j, GenericError, in)
            ELSE HandlerUploadMetadata(SetFolderToken(mutated, j), j)

\* fault: the slot does not look at the status of the fetch
SlotFetchMetadataJobFinishedIgnoringStatus(s, j, statusCode, metadata, result, in) ==
    LET t == [Received(s, j, "fetchFinished", statusCode)
                 EXCEPT !.folderMetadata[j] = metadata, !.pending[j] = "none"]
    IN IF ~IsMetadataValid(t, j)
       THEN EmitFinished(t, j, MetadataInvalid, in)
       ELSE StartUpdate(t, j, result, in)

\* metadata: what the handler holds as folderMetadata() when it emits
\* fetchFinished
SlotFetchMetadataJobFinished(s, j, statusCode, metadata, result, in) ==
    LET t == [Received(s, j, "fetchFinished", statusCode)
                 EXCEPT !.folderMetadata[j] = metadata, !.pending[j] = "none"]
    IN IF statusCode # HttpOk
       THEN EmitFinished(t, j, GenericError, in)
       ELSE IF ~IsMetadataValid(t, j)
       THEN EmitFinished(t, j, MetadataInvalid, in)
       ELSE StartUpdate(t, j, result, in)

\* what scheduleSubJobs sets on a sub-job it creates
SubJobKeys(s, j) ==
    LET metadata == s.folderMetadata[j].keys
    IN [metadataKeyForEncryption |-> metadata.metadataKeyForEncryption,
        metadataKeyForDecryption |-> metadata.metadataKeyForDecryption,
        keyChecksums |-> metadata.keyChecksums \cup metadata.keyChecksumsRemoved,
        folderToken |-> s.folderToken[j]]

\* fault: the sub-jobs get the keys but not the folder token
ScheduleSubJobsWithoutToken(s, j, journal) ==
    IF ~IsMetadataValid(s, j)
    THEN IF IsAddOrRemove(s, j)
         THEN UnlockFolder(s, j, FALSE)
         ELSE [s EXCEPT !.finishedCodes[j] = Append(@, GenericError)]
    ELSE LET dirs == {r \in Records : journal[r].kind = "dir"}
             made == 1..Cardinality(dirs)
             record(k) == CHOOSE r \in dirs : Cardinality({q \in dirs : q <= r}) = k
             t == CallReturning(s, j, "getFilesBelowPath", Cardinality(dirs))
         IN [t EXCEPT !.subJobs = @ \cup made,
                      !.operation = [k \in Jobs |-> IF k \in made THEN "ReEncrypt" ELSE @[k]],
                      !.path = [k \in Jobs |->
                                   IF k \in made THEN journal[record(k)].name ELSE @[k]],
                      !.jobKeys = [k \in Jobs |->
                                      IF k \in made
                                      THEN [SubJobKeys(s, j) EXCEPT !.folderToken = NoToken]
                                      ELSE @[k]]]

\* journal: what getFilesBelowPath visits, one entry per record slot; the
\* trace holds the number of directory records it visited
ScheduleSubJobs(s, j, journal) ==
    IF ~IsMetadataValid(s, j)
    THEN IF IsAddOrRemove(s, j)
         THEN UnlockFolder(s, j, FALSE)
         ELSE [s EXCEPT !.finishedCodes[j] = Append(@, GenericError)]
    ELSE LET dirs == {r \in Records : journal[r].kind = "dir"}
             \* the k-th directory record visited makes sub-job k
             made == 1..Cardinality(dirs)
             record(k) == CHOOSE r \in dirs : Cardinality({q \in dirs : q <= r}) = k
             t == CallReturning(s, j, "getFilesBelowPath", Cardinality(dirs))
         IN [t EXCEPT !.subJobs = @ \cup made,
                      !.operation = [k \in Jobs |-> IF k \in made THEN "ReEncrypt" ELSE @[k]],
                      !.path = [k \in Jobs |->
                                   IF k \in made THEN journal[record(k)].name ELSE @[k]],
                      !.jobKeys = [k \in Jobs |->
                                      IF k \in made THEN SubJobKeys(s, j) ELSE @[k]]]

\* fault: every sub-job is started as soon as it is scheduled
RECURSIVE StartEvery(_, _, _)
StartEvery(s, S, in) ==
    IF S = {}
    THEN s
    ELSE LET r == CHOOSE x \in S : TRUE
         IN StartEvery(Start(s, r, in), S \ {r}, in)

SlotUpdateMetadataFinishedStartingAll(s, j, code, metadata, journal, in) ==
    LET t == [Received(s, j, "uploadFinished", code)
                 EXCEPT !.folderMetadata[j] = metadata, !.pending[j] = "none"]
    IN IF code # HttpOk
       THEN IF IsAddOrRemove(t, j)
            THEN UnlockFolder(t, j, FALSE)
            ELSE EmitFinished(t, j, code, in)
       ELSE IF IsAddOrRemove(t, j)
       THEN LET u == ScheduleSubJobs(t, j, journal)
            IN IF u.subJobs = {}
               THEN UnlockFolder(u, j, TRUE)
               ELSE StartEvery(u, u.subJobs, in)
       ELSE EmitFinished(t, j, HttpOk, in)

\* fault: a failed upload is reported without unlocking the folder
SlotUpdateMetadataFinishedNoUnlock(s, j, code, metadata, journal, in) ==
    LET t == [Received(s, j, "uploadFinished", code)
                 EXCEPT !.folderMetadata[j] = metadata, !.pending[j] = "none"]
    IN IF code # HttpOk
       THEN EmitFinished(t, j, code, in)
       ELSE IF IsAddOrRemove(t, j)
       THEN LET u == ScheduleSubJobs(t, j, journal)
            IN IF u.subJobs = {}
               THEN UnlockFolder(u, j, TRUE)
               ELSE Start(u, Last(u.subJobs, in), in)
       ELSE EmitFinished(t, j, HttpOk, in)

\* metadata: what the handler holds as folderMetadata() when it emits
\* uploadFinished
SlotUpdateMetadataFinished(s, j, code, metadata, journal, in) ==
    LET t == [Received(s, j, "uploadFinished", code)
                 EXCEPT !.folderMetadata[j] = metadata, !.pending[j] = "none"]
    IN IF code # HttpOk
       THEN IF IsAddOrRemove(t, j)
            THEN UnlockFolder(t, j, FALSE)
            ELSE EmitFinished(t, j, code, in)
       ELSE IF IsAddOrRemove(t, j)
       THEN LET u == ScheduleSubJobs(t, j, journal)
            IN IF u.subJobs = {}
               THEN UnlockFolder(u, j, TRUE)
               ELSE Start(u, Last(u.subJobs, in), in)
       ELSE EmitFinished(t, j, HttpOk, in)

\* slotFolderUnlocked(folderId, httpStatus)
SlotFolderUnlocked(s, j, httpStatus, in) == EmitFinished(s, j, httpStatus, in)

\* the handler emits folderUnlocked: the slot runs once for every connection
\* unlockFolder made
RECURSIVE FolderUnlockedSignal(_, _, _, _, _)
FolderUnlockedSignal(s, j, httpStatus, times, in) ==
    IF times = 0
    THEN s
    ELSE FolderUnlockedSignal(SlotFolderUnlocked(s, j, httpStatus, in), j, httpStatus,
                              times - 1, in)

\* ------------------------------------------------------------------ actions
\* the state of the job after its constructor
UsersJobInit ==
    /\ \E op \in Operations :
           operation = [j \in Jobs |-> IF j = TopJob THEN op ELSE "None"]
    /\ \E c \in {"null", "cert"} :
           \* only a caller that adds a user passes a certificate
           /\ operation[TopJob] # "Add" => c = "null"
           /\ folderUserCertificate = [j \in Jobs |-> IF j = TopJob THEN c ELSE "null"]
    /\ pending = [j \in Jobs |-> IF j = TopJob THEN "notStarted" ELSE "none"]
    /\ folderMetadata = [j \in Jobs |-> NullMetadata]
    /\ subJobs = {}
    /\ path = [j \in Jobs |-> "d1"]
    /\ subJobSyncItems = [n \in Names |-> "absent"]
    /\ itemStatus = [n \in Names |-> ItemInitialStatus]
    /\ itemStatusRemote = [n \in Names |-> ItemInitialStatus]
    /\ finishedCodes = [j \in Jobs |-> <<>>]
    /\ trace = [j \in Jobs |-> <<>>]
    /\ unlockRunning = [j \in Jobs |-> FALSE]
    /\ unlockConnections = [j \in Jobs |-> 0]
    /\ succeeded = {}
    /\ failed = {}
    /\ lastEncryptionStatus = "none"
    /\ jobKeys = [j \in Jobs |-> NoJobKeys]
    /\ folderToken = [j \in Jobs |-> NoToken]

\* no folder-users job was created
UsersJobAbsent ==
    /\ operation = [j \in Jobs |-> "None"]
    /\ folderUserCertificate = [j \in Jobs |-> "null"]
    /\ pending = [j \in Jobs |-> "none"]
    /\ folderMetadata = [j \in Jobs |-> NullMetadata]
    /\ subJobs = {}
    /\ path = [j \in Jobs |-> "d1"]
    /\ subJobSyncItems = [n \in Names |-> "absent"]
    /\ itemStatus = [n \in Names |-> ItemInitialStatus]
    /\ itemStatusRemote = [n \in Names |-> ItemInitialStatus]
    /\ finishedCodes = [j \in Jobs |-> <<>>]
    /\ trace = [j \in Jobs |-> <<>>]
    /\ unlockRunning = [j \in Jobs |-> FALSE]
    /\ unlockConnections = [j \in Jobs |-> 0]
    /\ succeeded = {}
    /\ failed = {}
    /\ lastEncryptionStatus = "none"
    /\ jobKeys = [j \in Jobs |-> NoJobKeys]
    /\ folderToken = [j \in Jobs |-> NoToken]

\* setSubJobSyncItems, called by the owner before it starts the job
SetSubJobSyncItems ==
    /\ pending[TopJob] = "notStarted"
    /\ \E m \in [Names -> {"absent", "null", "item"}] :
           /\ m # subJobSyncItems
           /\ subJobSyncItems' = m
    /\ UNCHANGED <<operation, folderUserCertificate, pending, folderMetadata, subJobs,
                   path, itemStatus, itemStatusRemote, finishedCodes, trace,
                   unlockRunning, unlockConnections, succeeded, failed,
                   lastEncryptionStatus, jobKeys, folderToken, mj, otherVars>>

\* the owner calls start() on the job it created
StartJob ==
    /\ pending[TopJob] = "notStarted"
    /\ \E in \in NoChoice :
           Becomes(Start([State EXCEPT !.pending[TopJob] = "none"], TopJob, in))

CertificateFetchedFromKeychain ==
    \E j \in {k \in Jobs : pending[k] = "keychain"}, certificate \in {"null", "cert"},
       in \in NoChoice :
        /\ certificate = "null" => in = NoInput
        /\ Becomes(SlotCertificateFetchedFromKeychain(State, j, certificate, in))

CertificatesFetchedFromServer ==
    \E j \in {k \in Jobs : pending[k] = "server"}, certificate \in {"null", "cert"} :
        Becomes(SlotCertificatesFetchedFromServer(State, j, certificate, NoInput))

CertificateWriteComplete ==
    \E j \in {k \in Jobs : pending[k] = "write"}, in \in NoChoice :
        Becomes(CertificateReady(State, j, in))

\* a fetch that fails leaves the handler without metadata; result is drawn
\* only when addUser / removeUser is called
FetchFinished ==
    \E j \in {k \in Jobs : pending[k] = "fetch"}, statusCode \in HandlerStatuses,
       metadata \in Metadatas, result \in BOOLEAN :
        /\ statusCode # HttpOk => metadata = NullMetadata
        /\ (statusCode # HttpOk \/ metadata.state # "valid" \/ ~IsAddOrRemove(State, j))
               => result
        /\ Becomes(SlotFetchMetadataJobFinished(State, j, statusCode, metadata, result,
                                                NoInput))

\* after an upload the handler still holds the metadata it uploaded, or none
\* that is valid; the journal is drawn only when scheduleSubJobs reads it, and
\* the other inputs only when the step can start a sub-job
UploadFinished ==
    \E j \in {k \in Jobs : pending[k] = "upload"}, code \in HandlerStatuses,
       keeps \in BOOLEAN :
        LET reads == code = HttpOk /\ j = TopJob /\ IsAddOrRemove(State, j) /\ keeps
            metadata == IF keeps THEN folderMetadata[j] ELSE NullMetadata
        IN \E journal \in IF reads THEN Journals ELSE {NoJournal} :
               LET dirs == {r \in Records : journal[r].kind = "dir"}
                   startable == IF code # HttpOk THEN {}
                                ELSE IF j = TopJob THEN 1..Cardinality(dirs)
                                ELSE subJobs \ {j}
               IN \E in \in Choices(startable) :
                      Becomes(SlotUpdateMetadataFinished(State, j, code, metadata,
                                                         journal, in))

FolderUnlocked ==
    \E j \in {k \in Jobs : unlockRunning[k]}, httpStatus \in HandlerStatuses :
        Becomes(FolderUnlockedSignal(
            [Received(State, j, "folderUnlocked", httpStatus)
                EXCEPT !.unlockRunning[j] = FALSE],
            j, httpStatus, unlockConnections[j], NoInput))

\* ------------------------------------------- UpdateE2eeFolderMetadataJob
\* the job after its constructor: _state, the handler pointer, the request
\* outstanding, the item's _status, _errorString and _e2eEncryptionStatus,
\* the statuses emitted with finished() and the trace of its calls on the handler
MetadataJobNew ==
    [state |-> "NotYetStarted", handler |-> "null", pending |-> "none",
     metadata |-> NullMetadata, itemStatus |-> "NoStatus", errorString |-> "",
     e2eEncryptionStatus |-> ItemInitialStatus,
     e2eEncryptionStatusRemote |-> ItemInitialStatus,
     finished |-> <<>>, trace |-> <<>>, crashed |-> FALSE,
     starts |-> 0, returned |-> <<>>]

\* no such job was created
MetadataJobAbsent == [MetadataJobNew EXCEPT !.state = "Absent"]

MjCall(m, what) == [m EXCEPT !.trace = Append(@, Event(what, 0))]

MjReceived(m, what, code) == [m EXCEPT !.trace = Append(@, Event(what, code))]

MjFinished(m, status) == [m EXCEPT !.finished = Append(@, status)]

\* the outcomes of unlockFolder on a handler pointer that is null (the
\* behaviour is undefined): the process dies at the first dereference, or the
\* reads through the pointer yield some value and it dies at the call
NullHandlerOutcomes == {"crash", "doubleCall", "notLocked", "locked"}

\* UpdateE2eeFolderMetadataJob::unlockFolder(success); isUnlockRunning and
\* isFolderLocked are what the handler answers
MjUnlockFolder(m, success, isUnlockRunning, isFolderLocked, ub) ==
    IF m.handler = "null" /\ ub = "crash"
    THEN [m EXCEPT !.crashed = TRUE]
    ELSE IF (m.handler = "null" /\ ub = "doubleCall") \/ (m.handler # "null" /\ isUnlockRunning)
    THEN m
    ELSE LET e == IF success THEN m
                  ELSE [m EXCEPT !.errorString = "Failed to update folder metadata."]
             status == IF success THEN "Success" ELSE "FatalError"
             locked == IF m.handler = "null" THEN ub = "locked" ELSE isFolderLocked
         IN IF ~locked
            THEN MjFinished(
                     IF success /\ m.handler # "null" /\ e.metadata.state # "null"
                     THEN [e EXCEPT !.e2eEncryptionStatus = e.metadata.status]
                     ELSE e,
                     status)
            ELSE IF m.handler = "null"
            THEN [e EXCEPT !.crashed = TRUE]
            ELSE [MjCall(e, IF success THEN "unlockFolder(true)" ELSE "unlockFolder(false)")
                     EXCEPT !.pending = "unlock"]

\* UpdateE2eeFolderMetadataJob::start()
MjStart(m, rootOk, ub) ==
    IF ~rootOk
    THEN MjUnlockFolder(m, FALSE, FALSE, FALSE, ub)
    ELSE [MjCall([m EXCEPT !.handler = "set"], "fetchMetadata") EXCEPT !.pending = "fetch"]

\* scheduleSelfOrChild(): the scheduler calls it; it starts the job once
\* starts counts the calls of start(); returned holds what each call
\* returned and how many times finished had been emitted when it was made
MjScheduleSelfOrChild(m, rootOk, ub) ==
    LET Returns(n, value) ==
            IF n.crashed THEN n
            ELSE [n EXCEPT !.returned =
                      Append(@, [value |-> value, finished |-> Len(m.finished)])]
    IN IF m.state = "Finished"
       THEN Returns(m, FALSE)
       ELSE IF m.state = "NotYetStarted"
       THEN Returns(MjStart([m EXCEPT !.state = "Running", !.starts = @ + 1],
                            rootOk, ub),
                    TRUE)
       ELSE Returns(m, TRUE)

\* a call on the journal or the metadata, with what it returned
MjCallReturning(m, what, result) == [m EXCEPT !.trace = Append(@, Event(what, BoolCode(result)))]

\* PropagatorJob::JobParallelism UpdateE2eeFolderMetadataJob::parallelism()
MjParallelism(m) == "WaitForFinished"

\* the condition of slotFetchMetadataJobFinished on the fetched metadata,
\* evaluated left to right: what is called, and whether the job gives up
MjMetadataChecked(m, moved, needUpdate) ==
    IF m.metadata.state # "valid" THEN [job |-> m, giveUp |-> TRUE]
    ELSE LET u == MjCallReturning(m, "moveFromFileDropToFiles", moved)
         IN IF moved THEN [job |-> u, giveUp |-> FALSE]
            ELSE [job |-> MjCallReturning(u, "encryptedMetadataNeedUpdate", needUpdate),
                  giveUp |-> ~needUpdate]

\* fault: the metadata is uploaded whether or not anything changed in it
MjSlotFetchMetadataJobFinishedAlwaysUploading(m, httpReturnCode, metadata, rootOk, moved, needUpdate, isFolderLocked) ==
    LET t == [MjReceived(m, "fetchFinished", httpReturnCode)
                 EXCEPT !.metadata = metadata, !.pending = "none"]
    IN IF httpReturnCode # HttpOk
       THEN MjFinished([t EXCEPT !.itemStatus = "FatalError", !.errorString = "message"],
                       "FatalError")
       ELSE LET r == MjCallReturning(t, "getRootE2eFolderRecord", rootOk)
            IN IF ~rootOk
               THEN MjUnlockFolder(r, FALSE, FALSE, isFolderLocked, "crash")
               ELSE LET c == MjMetadataChecked(r, moved, needUpdate)
                    IN IF metadata.state # "valid"
                       THEN MjUnlockFolder(c.job, FALSE, FALSE, isFolderLocked, "crash")
                       ELSE [MjCall(c.job, "uploadMetadata") EXCEPT !.pending = "upload"]

\* slotFetchMetadataJobFinished; moved and needUpdate are what
\* moveFromFileDropToFiles() and encryptedMetadataNeedUpdate() return
MjSlotFetchMetadataJobFinished(m, httpReturnCode, metadata, rootOk, moved, needUpdate, isFolderLocked) ==
    LET t == [MjReceived(m, "fetchFinished", httpReturnCode)
                 EXCEPT !.metadata = metadata, !.pending = "none"]
    IN IF httpReturnCode # HttpOk
       THEN MjFinished([t EXCEPT !.itemStatus = "FatalError", !.errorString = "message"],
                       "FatalError")
       ELSE LET r == MjCallReturning(t, "getRootE2eFolderRecord", rootOk)
            IN IF ~rootOk
               THEN MjUnlockFolder(r, FALSE, FALSE, isFolderLocked, "crash")
               ELSE LET c == MjMetadataChecked(r, moved, needUpdate)
                    IN IF c.giveUp
                       THEN MjUnlockFolder(c.job, FALSE, FALSE, isFolderLocked, "crash")
                       ELSE [MjCall(c.job, "uploadMetadata") EXCEPT !.pending = "upload"]

\* slotUpdateMetadataFinished
MjSlotUpdateMetadataFinished(m, httpReturnCode) ==
    LET status == IF httpReturnCode # HttpOk THEN "FatalError" ELSE "Success"
        r == MjReceived(m, "uploadFinished", httpReturnCode)
        e == IF httpReturnCode # HttpOk THEN [r EXCEPT !.errorString = "message"] ELSE r
    IN MjFinished([e EXCEPT !.itemStatus = status, !.pending = "none"], status)

\* the lambda unlockFolder connects to folderUnlocked
MjFolderUnlocked(m, httpStatus) ==
    LET t == [MjReceived(m, "folderUnlocked", httpStatus) EXCEPT !.pending = "none"]
    IN IF httpStatus # HttpOk
       THEN MjFinished([t EXCEPT !.errorString = "Failed to unlock encrypted folder."],
                       "FatalError")
       ELSE IF t.metadata.state # "valid"
       THEN MjFinished([t EXCEPT !.errorString = "Failed to finalize item."], "FatalError")
       ELSE MjFinished([t EXCEPT !.e2eEncryptionStatus = t.metadata.status,
                                 !.e2eEncryptionStatusRemote = t.metadata.status],
                       "Success")

MetadataJobScheduleSelfOrChild ==
    /\ mj.state \notin {"Absent"}
    /\ ~mj.crashed
    /\ Len(mj.returned) < MaxCalls
    /\ \E rootOk \in IF mj.state = "NotYetStarted" THEN BOOLEAN ELSE {TRUE},
          ub \in IF mj.state = "NotYetStarted" THEN NullHandlerOutcomes ELSE {"crash"} :
           mj' = MjScheduleSelfOrChild(mj, rootOk, ub)
    /\ UNCHANGED <<usersVars, otherVars>>

MetadataJobFetchFinished ==
    /\ mj.pending = "fetch"
    /\ \E httpReturnCode \in HandlerStatuses, metadata \in Metadatas,
          rootOk, moved, needUpdate, isFolderLocked \in BOOLEAN :
           /\ httpReturnCode # HttpOk => metadata = NullMetadata
           /\ mj' = MjSlotFetchMetadataJobFinished(mj, httpReturnCode, metadata, rootOk,
                                                   moved, needUpdate, isFolderLocked)
    /\ UNCHANGED <<usersVars, otherVars>>

MetadataJobUploadFinished ==
    /\ mj.pending = "upload"
    /\ \E httpReturnCode \in HandlerStatuses :
           mj' = MjSlotUpdateMetadataFinished(mj, httpReturnCode)
    /\ UNCHANGED <<usersVars, otherVars>>

MetadataJobFolderUnlocked ==
    /\ mj.pending = "unlock"
    /\ \E httpStatus \in HandlerStatuses :
           mj' = MjFolderUnlocked(mj, httpStatus)
    /\ UNCHANGED <<usersVars, otherVars>>

\* ------------------------------------------------- local propagation jobs
\* (propagatorjobs.cpp)  A path is the sequence of its characters, so that
\* QString::startsWith, mid and replace are what they are on strings.
Sep == "/"

\* propagator()->localPath(): the sync root, with its trailing slash
LocalPath == <<"r", Sep>>

\* names of directory entries; two of them share a prefix
FileNames == {<<"a">>, <<"a", "b">>, <<"c">>}

\* the name of the one entry a sub-directory may hold
NestedName == <<"a">>

\* _item->_file of the job, and _item->_renameTarget of a rename
ItemFile == <<"d">>
RenameTarget == <<"e">>

Below(dir, name) == dir \o <<Sep>> \o name

\* paths relative to the sync root that occur
RelativePaths ==
    {ItemFile, RenameTarget}
        \cup {Below(top, n) : top \in {ItemFile, RenameTarget}, n \in FileNames}
        \cup {Below(Below(top, n), NestedName) :
                  top \in {ItemFile, RenameTarget}, n \in FileNames}

\* QString::startsWith
StartsWith(str, prefix) ==
    Len(prefix) <= Len(str) /\ SubSeq(str, 1, Len(prefix)) = prefix

\* QString::mid(position)
Mid(str, position) == SubSeq(str, position + 1, Len(str))

\* QString::replace(0, n, after)
Replace(str, n, after) == after \o Mid(str, IF n < Len(str) THEN n ELSE Len(str))

\* a path is the directory dir or lies in it
IsPrefixPathOrEqual(dir, p) == p = dir \/ StartsWith(p, dir \o <<Sep>>)

\* a map without the keys that satisfy Drop
Without(map, Drop(_)) == [q \in {k \in DOMAIN map : ~Drop(k)} |-> map[q]]

With(map, key, value) ==
    [q \in DOMAIN map \cup {key} |-> IF q = key THEN value ELSE map[q]]

Reverse(seq) == [i \in 1..Len(seq) |-> seq[Len(seq) + 1 - i]]

\* OwncloudPropagator::fullLocalPath
FullLocalPath(relative) == LocalPath \o relative

SyncFileItemStatuses ==
    {"Success", "NormalError", "SoftError", "FatalError", "Conflict"}

\* SyncFileItem::isDirectory
IsDirectory(item) == item.type = "dir"

\* the job and the propagator as one value
JobState == [p |-> propagator, j |-> itemJob]

\* PropagateItemJob::done: the status is reported with finished()
Done(s, status) == [s EXCEPT !.j.statuses = Append(@, status)]

\* a collaborator (filesystem, journal, vfs) was asked and answered
Asked(s, what, arg, answer) ==
    [s EXCEPT !.j.calls = Append(@, [op |-> what, arg |-> arg, answer |-> answer])]

\* SyncJournalDb::deleteFileRecord(path, recursively)
JournalDeleteFileRecord(journal, file, recursively) ==
    LET Gone(q) == q = file \/ (recursively /\ IsPrefixPathOrEqual(file, q))
    IN Without(journal, Gone)

\* SyncJournalDb::commit
JournalCommit(s, label) == [s EXCEPT !.p.commits = Append(@, label)]

\* FileSystem::removeRecursively(path, onDeleted, errors): the entries of the
\* directory are visited in the order the directory iterator gives them,
\* sub-directories are emptied first, and onDeleted is called for what was
\* removed; fail holds the entries the filesystem refuses to remove
RECURSIVE FsRemoveRecursively(_, _, _, _), FsRemoveEntries(_, _, _, _, _)
FsRemoveEntries(r, dir, order, fail, i) ==
    IF i > Len(order) THEN r
    ELSE LET q == Below(dir, order[i])
         IN IF q \notin DOMAIN r.disk
            THEN FsRemoveEntries(r, dir, order, fail, i + 1)
            ELSE IF r.disk[q] = "dir"
            THEN LET sub == FsRemoveRecursively(r.disk, q, order, fail)
                 IN FsRemoveEntries([disk |-> sub.disk,
                                     onDeleted |-> r.onDeleted \o sub.onDeleted,
                                     ok |-> r.ok /\ sub.ok],
                                    dir, order, fail, i + 1)
            ELSE IF q \in fail
            THEN FsRemoveEntries([r EXCEPT !.ok = FALSE], dir, order, fail, i + 1)
            ELSE LET Gone(k) == k = q
                 IN FsRemoveEntries([r EXCEPT !.disk = Without(r.disk, Gone),
                                              !.onDeleted =
                                                  Append(@, [path |-> q, isDir |-> FALSE])],
                                    dir, order, fail, i + 1)

FsRemoveRecursively(disk, dir, order, fail) ==
    LET r == FsRemoveEntries([disk |-> disk, onDeleted |-> <<>>, ok |-> TRUE],
                             dir, order, fail, 1)
        Gone(k) == k = dir
    IN IF r.ok /\ dir \notin fail
       THEN [disk |-> Without(r.disk, Gone),
             onDeleted |-> Append(r.onDeleted, [path |-> dir, isDir |-> TRUE]),
             ok |-> TRUE]
       ELSE [r EXCEPT !.ok = FALSE]

\* FileSystem::moveToTrash and FileSystem::remove take the entry, with what
\* is below it, away from the directory
FsTakeAway(disk, filename) ==
    LET Gone(q) == IsPrefixPathOrEqual(filename, q)
    IN Without(disk, Gone)

\* ---------------------------------------------------- PropagateLocalRemove
\* the loop of removeRecursively over the deleted entries: a record is
\* deleted unless the entry lies outside the sync root or its path starts
\* with the directory deleted last
RECURSIVE DeleteDeletedRecords(_, _, _, _)
DeleteDeletedRecords(journal, deleted, i, deletedDir) ==
    IF i > Len(deleted) THEN journal
    ELSE LET it == deleted[i]
         IN IF ~StartsWith(it.path, LocalPath)
            THEN DeleteDeletedRecords(journal, deleted, i + 1, deletedDir)
            ELSE IF deletedDir # <<>> /\ StartsWith(it.path, deletedDir)
            THEN DeleteDeletedRecords(journal, deleted, i + 1, deletedDir)
            ELSE DeleteDeletedRecords(
                     JournalDeleteFileRecord(journal, Mid(it.path, Len(LocalPath)),
                                             it.isDir),
                     deleted, i + 1, IF it.isDir THEN it.path ELSE deletedDir)

\* fault: on failure the records of the whole directory are deleted
RemoveRecursivelyDroppingAll(s, relative, order, fail) ==
    LET absolute == FullLocalPath(s.j.item.file \o relative)
        r == FsRemoveRecursively(s.p.disk, absolute, order, fail)
        t == Asked([s EXCEPT !.p.disk = r.disk], "removeRecursively", absolute, r.ok)
    IN IF ~r.ok
       THEN [t EXCEPT !.p.journal = JournalDeleteFileRecord(@, s.j.item.file, TRUE)]
       ELSE t

\* PropagateLocalRemove::removeRecursively(path): the state after it, and
\* what it returns as the last call
RemoveRecursively(s, relative, order, fail) ==
    LET absolute == FullLocalPath(s.j.item.file \o relative)
        r == FsRemoveRecursively(s.p.disk, absolute, order, fail)
        deleted == Reverse(r.onDeleted)
        t == Asked([s EXCEPT !.p.disk = r.disk], "removeRecursively", absolute, r.ok)
    IN IF ~r.ok
       THEN [t EXCEPT !.p.journal = DeleteDeletedRecords(@, deleted, 1, <<>>)]
       ELSE t

\* PropagateLocalRemove::start
PropagateLocalRemoveStart(s, env) ==
    LET t == [s EXCEPT !.j.moveToTrash = s.p.moveFilesToTrash]
        filename == FullLocalPath(t.j.item.file)
        exists == filename \in DOMAIN t.p.disk
        removed == [t EXCEPT !.p.disk = FsTakeAway(@, filename)]
        Finish(u) ==
            Done(JournalCommit(
                     [u EXCEPT !.p.journal =
                          JournalDeleteFileRecord(@, u.j.item.originalFile,
                                                  IsDirectory(u.j.item))],
                     "Local remove"),
                 "Success")
    IN IF t.p.abortRequested THEN t
       ELSE IF env.clash
       THEN Done(Asked(t, "localFileNameClash", t.j.item.file, TRUE), "NormalError")
       ELSE IF t.j.moveToTrash
       THEN IF exists /\ ~env.ok
            THEN Done(Asked(t, "moveToTrash", filename, FALSE), "NormalError")
            ELSE IF exists THEN Finish(Asked(removed, "moveToTrash", filename, TRUE))
            ELSE Finish(t)
       ELSE IF IsDirectory(t.j.item)
       THEN IF exists /\ t.p.disk[filename] = "dir"
            THEN LET u == RemoveRecursively(t, <<>>, env.order, env.fail)
                 IN IF ~u.j.calls[Len(u.j.calls)].answer
                    THEN Done(u, "NormalError")
                    ELSE Finish(u)
            ELSE Finish(t)
       ELSE IF exists /\ ~env.ok
       THEN Done(Asked(t, "remove", filename, FALSE), "NormalError")
       ELSE IF exists THEN Finish(Asked(removed, "remove", filename, TRUE))
       ELSE Finish(t)

\* SyncFileItem::destination
Destination(item) == IF item.renameTarget = <<>> THEN item.file ELSE item.renameTarget

\* OwncloudPropagator::updateMetadata(item): the placeholder is converted and
\* the record of the item is written; outcome is what the vfs and the
\* journal answer ("Error", "Locked" or "Success"), and only "Success"
\* leaves the record in the journal
UpdateMetadata(s, item, outcome) ==
    LET t == Asked(s, "updateMetadata", item.file, outcome)
    IN IF outcome = "Success"
       THEN [t EXCEPT !.p.journal =
                 With(@, Destination(item), [type |-> item.type, etag |-> item.etag])]
       ELSE t

\* the name OwncloudPropagator::createConflict moves the file to
ConflictName(filename) == filename \o <<"~">>

\* ----------------------------------------------------- PropagateLocalMkdir
EtagInvalid == <<"_", "i", "n", "v", "a", "l", "i", "d", "_">>

\* fault: the record is written with the etag of the item
StartLocalMkdirCreateKeepingEtag(s, env) ==
    LET newDirStr == FullLocalPath(s.j.item.file)
        clash == env.casePreserving /\ env.clash
        made == newDirStr \in DOMAIN s.p.disk \/ env.ok
        u == [s EXCEPT !.p.disk = With(@, newDirStr, "dir")]
        v == UpdateMetadata(u, u.j.item, env.updateMetadata)
    IN IF clash \/ ~made \/ env.updateMetadata # "Success" THEN Done(s, "NormalError")
       ELSE Done(JournalCommit(v, "localMkdir"),
                 IF v.j.item.instruction = "CONFLICT" THEN "Conflict" ELSE "Success")

\* fault: the directory is made whatever the name-clash test says
StartLocalMkdirCreateDespiteClash(s, env) ==
    LET newDirStr == FullLocalPath(s.j.item.file)
        cased == Asked(s, "fsCasePreserving", newDirStr, env.casePreserving)
        t == IF env.casePreserving
             THEN Asked(cased, "localFileNameClash", s.j.item.file, env.clash)
             ELSE cased
        u == [t EXCEPT !.p.disk = With(@, newDirStr, "dir")]
    IN Done(UpdateMetadata(u, [u.j.item EXCEPT !.etag = EtagInvalid], "Success"),
            "NormalError")

\* startLocalMkdir from the name-clash test on
StartLocalMkdirCreate(s, env) ==
    LET newDirStr == FullLocalPath(s.j.item.file)
        clash == env.casePreserving /\ env.clash
        cased == Asked(s, "fsCasePreserving", newDirStr, env.casePreserving)
        t == IF env.casePreserving
             THEN Asked(cased, "localFileNameClash", s.j.item.file, env.clash)
             ELSE cased
        blocked == newDirStr \in DOMAIN t.p.disk /\ t.p.disk[newDirStr] = "file"
        made == newDirStr \in DOMAIN t.p.disk \/ env.ok
        u == Asked([t EXCEPT !.p.disk = With(@, newDirStr, "dir")],
                   "mkpath", newDirStr, TRUE)
        newItem == [u.j.item EXCEPT !.etag = EtagInvalid]
        v == UpdateMetadata(u, newItem, env.updateMetadata)
    IN IF clash THEN Done(t, "NormalError")
       ELSE IF blocked \/ ~made
       THEN Done(Asked(t, "mkpath", newDirStr, FALSE), "NormalError")
       ELSE IF env.updateMetadata = "Error" THEN Done(v, "FatalError")
       ELSE IF env.updateMetadata = "Locked" THEN Done(v, "SoftError")
       ELSE Done(JournalCommit(v, "localMkdir"),
                 IF v.j.item.instruction = "CONFLICT" THEN "Conflict" ELSE "Success")

\* PropagateLocalMkdir::startLocalMkdir
StartLocalMkdir(s, env) ==
    LET newDirStr == FullLocalPath(s.j.item.file)
        isFile == newDirStr \in DOMAIN s.p.disk /\ s.p.disk[newDirStr] = "file"
        removed == [s EXCEPT !.p.disk = FsTakeAway(@, newDirStr)]
        moved == [s EXCEPT !.p.disk = With(FsTakeAway(@, newDirStr),
                                           ConflictName(newDirStr), "file")]
    IN IF isFile /\ s.j.deleteExistingFile
       THEN IF ~env.fileOk
            THEN Done(Asked(s, "remove", newDirStr, FALSE), "NormalError")
            ELSE StartLocalMkdirCreate(Asked(removed, "remove", newDirStr, TRUE), env)
       ELSE IF isFile /\ s.j.item.instruction = "CONFLICT"
       THEN IF ~env.fileOk
            THEN Done(Asked(s, "createConflict", newDirStr, FALSE), "SoftError")
            ELSE StartLocalMkdirCreate(Asked(moved, "createConflict", newDirStr, TRUE),
                                       env)
       ELSE StartLocalMkdirCreate(s, env)

\* fault: _abortRequested is not looked at
PropagateLocalMkdirStartIgnoringAbort(s, env) == StartLocalMkdir(s, env)

\* PropagateLocalMkdir::start
PropagateLocalMkdirStart(s, env) ==
    IF s.p.abortRequested THEN s ELSE StartLocalMkdir(s, env)

\* ---------------------------------------------------- PropagateLocalRename
\* OwncloudPropagator::adjustRenamedPath: the path after the renames of its
\* ancestors recorded in _renamedDirectories
AdjustRenamedPath(renamedDirectories, original) ==
    LET hits == {k \in DOMAIN renamedDirectories : IsPrefixPathOrEqual(k, original)}
    IN IF hits = {} THEN original
       ELSE LET k == CHOOSE h \in hits : \A g \in hits : Len(g) <= Len(h)
            IN Replace(original, Len(k), renamedDirectories[k])

\* FileSystem::rename: the entry and what is below it get the new name
FsRename(disk, existingFile, targetFile) ==
    LET Moved(q) == IsPrefixPathOrEqual(existingFile, q)
        from == {q \in DOMAIN disk : Moved(q)}
        to == {Replace(q, Len(existingFile), targetFile) : q \in from}
    IN [q \in (DOMAIN disk \ from) \cup to |->
           IF q \in to
           THEN disk[CHOOSE o \in from : Replace(o, Len(existingFile), targetFile) = q]
           ELSE disk[q]]

\* the journal's records in the order of their paths
PathsInOrder ==
    <<ItemFile,
      Below(ItemFile, <<"a">>), Below(Below(ItemFile, <<"a">>), NestedName),
      Below(ItemFile, <<"a", "b">>), Below(Below(ItemFile, <<"a", "b">>), NestedName),
      Below(ItemFile, <<"c">>), Below(Below(ItemFile, <<"c">>), NestedName),
      RenameTarget,
      Below(RenameTarget, <<"a">>), Below(Below(RenameTarget, <<"a">>), NestedName),
      Below(RenameTarget, <<"a", "b">>),
      Below(Below(RenameTarget, <<"a", "b">>), NestedName),
      Below(RenameTarget, <<"c">>), Below(Below(RenameTarget, <<"c">>), NestedName)>>

\* SyncJournalDb::getFilesBelowPath: the records strictly below the path
FilesBelowPath(journal, dir) ==
    LET Visited(q) == q \in DOMAIN journal /\ q # dir /\ IsPrefixPathOrEqual(dir, q)
    IN SelectSeq(PathsInOrder, Visited)

\* the journal refuses the call what on the record of file
Refused(env, what, file) == <<what, file>> \in env.refused

\* PropagateLocalRename::deleteOldDbRecord: the state after it, with ok
\* telling what it returned
DeleteOldDbRecord(s, env, fileName) ==
    IF Refused(env, "getFileRecord", fileName)
    THEN [s |-> Done(Asked(s, "getFileRecord", fileName, FALSE), "NormalError"),
          ok |-> FALSE]
    ELSE IF Refused(env, "deleteFileRecord", fileName)
    THEN [s |-> Done(Asked(Asked(s, "getFileRecord", fileName, TRUE),
                           "deleteFileRecord", fileName, FALSE),
                     "NormalError"),
          ok |-> FALSE]
    ELSE [s |-> Asked(Asked([s EXCEPT !.p.journal =
                                JournalDeleteFileRecord(@, fileName, FALSE)],
                            "getFileRecord", fileName, TRUE),
                      "deleteFileRecord", fileName, TRUE),
          ok |-> TRUE]

\* the callback start() hands to getFilesBelowPath, run on one record
RenameRecord(s, env, oldFile, oldFileName) ==
    LET newFileNameString == Replace(oldFileName, Len(oldFile), s.j.item.renameTarget)
        got == Asked(s, "getFileRecord", oldFileName, TRUE)
        oldRecord == s.p.journal[oldFileName]
        deleted == Asked([got EXCEPT !.p.journal =
                              JournalDeleteFileRecord(@, oldFileName, FALSE)],
                         "deleteFileRecord", oldFileName, TRUE)
        newItem == [file |-> newFileNameString, originalFile |-> oldFileName,
                    renameTarget |-> <<>>, type |-> oldRecord.type,
                    etag |-> oldRecord.etag, instruction |-> "NONE"]
        outcome == IF Refused(env, "updateMetadata", oldFileName)
                   THEN "Error" ELSE "Success"
        written == UpdateMetadata(deleted, newItem, outcome)
    IN IF oldFileName = newFileNameString THEN s
       ELSE IF Refused(env, "getFileRecord", oldFileName)
       THEN Done(Asked(s, "getFileRecord", oldFileName, FALSE), "NormalError")
       ELSE IF Refused(env, "deleteFileRecord", oldFileName)
       THEN Done(Asked(got, "deleteFileRecord", oldFileName, FALSE), "NormalError")
       ELSE IF outcome = "Error" THEN Done(written, "FatalError")
       ELSE written

RECURSIVE RenameRecords(_, _, _, _, _)
RenameRecords(s, env, oldFile, below, i) ==
    IF i > Len(below) THEN s
    ELSE RenameRecords(RenameRecord(s, env, oldFile, below[i]), env, oldFile, below,
                       i + 1)

\* start() from the pin state on, for a directory and for a file
RenameFinish(s, env) ==
    LET original == s.j.item.originalFile
        pinState == IF original \in DOMAIN s.p.pinStates
                    THEN s.p.pinStates[original] ELSE "none"
        pinned == IF env.inheritOk
                  THEN Asked([s EXCEPT !.p.pinStates = With(@, original, "Inherited")],
                             "setPinState", original, TRUE)
                  ELSE Asked(s, "setPinState", original, FALSE)
        oldFile == pinned.j.item.file
        PinAndCommit(u) ==
            IF pinState \notin {"none", "Inherited"}
            THEN IF env.pinOk
                 THEN Done(JournalCommit(
                               Asked([u EXCEPT !.p.pinStates =
                                          With(@, u.j.item.renameTarget, pinState)],
                                     "setPinState", u.j.item.renameTarget, TRUE),
                               "localRename"),
                           "Success")
                 ELSE Done(Asked(u, "setPinState", u.j.item.renameTarget, FALSE),
                           "NormalError")
            ELSE Done(JournalCommit(u, "localRename"), "Success")
        newItem == pinned.j.item
        saved == UpdateMetadata(pinned, newItem, env.updateMetadata)
        walked == RenameRecords(pinned, env, oldFile,
                                FilesBelowPath(pinned.p.journal, oldFile), 1)
        recorded == [Asked(walked, "getFilesBelowPath", oldFile, TRUE)
                        EXCEPT !.p.renamedDirectories =
                            With(@, oldFile, walked.j.item.renameTarget)]
    IN IF ~IsDirectory(pinned.j.item)
       THEN IF env.updateMetadata = "Error" THEN Done(saved, "FatalError")
            ELSE IF env.updateMetadata = "Locked" THEN Done(saved, "SoftError")
            ELSE PinAndCommit(saved)
       ELSE IF ~env.queryOk
       THEN Done(Asked(pinned, "getFilesBelowPath", oldFile, FALSE), "FatalError")
       ELSE IF ~env.adjustOk
       THEN Done(Asked(recorded, "adjustSelectiveSync", oldFile, FALSE), "FatalError")
       ELSE PinAndCommit(recorded)

\* QString::compare(a, b, Qt::CaseInsensitive) is 0
ToLower(str) ==
    [i \in DOMAIN str |-> IF str[i] = "D" THEN "d" ELSE IF str[i] = "E" THEN "e"
                                                  ELSE str[i]]

\* PropagateLocalRename::start
PropagateLocalRenameStart(s, env) ==
    LET item == s.j.item
        previousNameInDb == AdjustRenamedPath(s.p.renamedDirectories, item.file)
        existingFile == FullLocalPath(previousNameInDb)
        targetFile == FullLocalPath(item.renameTarget)
        fileAlreadyMoved == FullLocalPath(item.originalFile) \notin DOMAIN s.p.disk
        moves == item.file # item.renameTarget
        asksClash == moves /\ ToLower(item.file) # ToLower(item.renameTarget)
        clashed == Asked(s, "localFileNameClash", item.renameTarget, env.clash)
        t == IF asksClash THEN clashed ELSE s
        renameOk == /\ env.renameOk
                    /\ existingFile \in DOMAIN t.p.disk
                    /\ targetFile \notin DOMAIN t.p.disk
        renamed == IF ~moves THEN t
                   ELSE Asked([t EXCEPT !.p.disk = FsRename(@, existingFile, targetFile)],
                              "rename", existingFile, TRUE)
        nameInDb == IF fileAlreadyMoved THEN previousNameInDb ELSE item.originalFile
        got == Asked(renamed, "getFileRecord", nameInDb, TRUE)
        first == IF fileAlreadyMoved THEN DeleteOldDbRecord(got, env, previousNameInDb)
                 ELSE [s |-> got, ok |-> TRUE]
        second == DeleteOldDbRecord(first.s, env, item.originalFile)
    IN IF s.p.abortRequested THEN s
       ELSE IF asksClash /\ env.clash THEN Done(clashed, "NormalError")
       ELSE IF moves /\ ~renameOk
       THEN Done(Asked(t, "rename", existingFile, FALSE), "NormalError")
       ELSE IF Refused(env, "getFileRecord", nameInDb)
       THEN Done(Asked(renamed, "getFileRecord", nameInDb, FALSE), "NormalError")
       ELSE IF ~first.ok THEN first.s
       ELSE IF ~second.ok THEN second.s
       ELSE RenameFinish(second.s, env)

\* ------------------------------------------- the jobs and what they act on
EmptyMap == [q \in {} |-> <<>>]

\* what the sync root holds below a directory: an entry is absent, a file,
\* an empty directory or a directory with one file in it
TreeShapes == [FileNames -> {"none", "file", "dir", "full"}]

DiskOfTree(top, shape) ==
    LET dirs == {Below(top, n) : n \in {m \in FileNames : shape[m] \in {"dir", "full"}}}
        files == {Below(top, n) : n \in {m \in FileNames : shape[m] = "file"}}
                     \cup {Below(Below(top, n), NestedName) :
                               n \in {m \in FileNames : shape[m] = "full"}}
    IN [q \in {FullLocalPath(r) : r \in {top} \cup dirs \cup files} |->
           IF Mid(q, Len(LocalPath)) \in files THEN "file" ELSE "dir"]

FileOnDisk(file) == [q \in {FullLocalPath(file)} |-> "file"]

\* the journal of a synced directory: one record per entry, with an etag
\* of its own
JournalOfDisk(disk) ==
    [r \in {Mid(q, Len(LocalPath)) : q \in DOMAIN disk} |->
        [type |-> disk[FullLocalPath(r)], etag |-> r]]

PinStates == {"Inherited", "AlwaysLocal"}

NewItem(type, instruction) ==
    [file |-> ItemFile, originalFile |-> ItemFile, renameTarget |-> <<>>,
     type |-> type, etag |-> <<"e", "1">>, instruction |-> instruction]

NewPropagator(disk, journal, pinStates, abort, trash) ==
    [disk |-> disk, journal |-> journal, commits |-> <<>>, pinStates |-> pinStates,
     renamedDirectories |-> EmptyMap, abortRequested |-> abort,
     moveFilesToTrash |-> trash]

\* the job after its constructor; before is the propagator it was given
NewItemJob(kind, item, deleteExistingFile, before) ==
    [kind |-> kind, item |-> item, moveToTrash |-> FALSE,
     deleteExistingFile |-> deleteExistingFile, statuses |-> <<>>, calls |-> <<>>,
     ran |-> FALSE, before |-> before]

\* no local job was created
PropagatorAbsent == NewPropagator(EmptyMap, EmptyMap, EmptyMap, FALSE, FALSE)
ItemJobAbsent == NewItemJob("None", NewItem("file", "NONE"), FALSE, PropagatorAbsent)

LocalJobsAbsent == propagator = PropagatorAbsent /\ itemJob = ItemJobAbsent

LocalRemoveInit ==
    \E type \in {"dir", "file"}, abort, trash \in BOOLEAN :
        \E disk \in IF type = "dir"
                    THEN {EmptyMap} \cup {DiskOfTree(ItemFile, sh) : sh \in TreeShapes}
                    ELSE {EmptyMap, FileOnDisk(ItemFile)} :
            /\ propagator = NewPropagator(
                   disk, With(JournalOfDisk(disk), ItemFile, [type |-> type, etag |-> ItemFile]),
                   EmptyMap, abort, trash)
            /\ itemJob = NewItemJob("Remove", NewItem(type, "REMOVE"), FALSE, propagator)

LocalMkdirInit ==
    \E abort, deleteExistingFile \in BOOLEAN, instruction \in {"NEW", "CONFLICT"},
       disk \in {EmptyMap, FileOnDisk(ItemFile),
                 [q \in {FullLocalPath(ItemFile)} |-> "dir"]} :
        \E journal \in {EmptyMap, JournalOfDisk(disk)} :
            /\ propagator = NewPropagator(disk, journal, EmptyMap, abort, FALSE)
            /\ itemJob = NewItemJob("Mkdir", NewItem("dir", instruction),
                                    deleteExistingFile, propagator)

\* the shapes of a directory that is renamed
RenameShapes == [FileNames -> {"none", "file", "full"}]

LocalRenameInit ==
    \E type \in {"dir", "file"}, abort, moved \in BOOLEAN,
       pin \in {EmptyMap} \cup {[q \in {ItemFile} |-> st] : st \in PinStates} :
        \E tree \in IF type = "dir"
                    THEN {DiskOfTree(ItemFile, sh) : sh \in RenameShapes}
                    ELSE {FileOnDisk(ItemFile)} :
            /\ propagator = NewPropagator(IF moved THEN EmptyMap ELSE tree,
                                          JournalOfDisk(tree), pin, abort, FALSE)
            /\ itemJob = NewItemJob("Rename",
                                    [NewItem(type, "RENAME")
                                        EXCEPT !.renameTarget = RenameTarget],
                                    FALSE, propagator)

\* the two values become the variables; the job has run
Ran(t) ==
    \E v \in {t} :
        /\ propagator' = v.p
        /\ itemJob' = [v.j EXCEPT !.ran = TRUE]

\* the orders a directory iterator may give the entries in
Orders == {o \in [1..Cardinality(FileNames) -> FileNames] :
               \A i, k \in 1..Cardinality(FileNames) : o[i] = o[k] => i = k}

\* how many entries the filesystem refuses to remove in one run
MaxRefusals == 2

LocalRemoveStart ==
    /\ itemJob.kind = "Remove"
    /\ ~itemJob.ran
    /\ \E fault \in {"none", "clash", "fs"} :
           \E order \in IF fault = "clash" THEN {<<>>} ELSE Orders,
              fail \in IF fault = "clash" THEN {{}}
                       ELSE {f \in SUBSET DOMAIN propagator.disk :
                                 Cardinality(f) <= MaxRefusals} :
               Ran(PropagateLocalRemoveStart(
                       JobState,
                       [clash |-> fault = "clash", ok |-> fault # "fs",
                        order |-> order, fail |-> fail]))
    /\ UNCHANGED <<usersVars, mj, fm, fmHistory, setup, encryptJob, fileDropMetadata>>

LocalMkdirStart ==
    /\ itemJob.kind = "Mkdir"
    /\ ~itemJob.ran
    /\ \E casePreserving, clash, ok, fileOk \in BOOLEAN,
          updateMetadata \in {"Error", "Locked", "Success"} :
           Ran(PropagateLocalMkdirStart(
                   JobState,
                   [casePreserving |-> casePreserving, clash |-> clash, ok |-> ok,
                    fileOk |-> fileOk, updateMetadata |-> updateMetadata]))
    /\ UNCHANGED <<usersVars, mj, fm, fmHistory, setup, encryptJob, fileDropMetadata>>

\* the calls on the journal that may be refused in a run of the rename
JournalCalls ==
    {<<what, file>> : what \in {"getFileRecord", "deleteFileRecord", "updateMetadata"},
                      file \in DOMAIN propagator.journal}

LocalRenameStart ==
    /\ itemJob.kind = "Rename"
    /\ ~itemJob.ran
    /\ \E fault \in {"none", "clash", "rename", "query", "adjust", "pin", "metadata",
                     "locked"},
          inheritOk \in BOOLEAN,
          refused \in {{}} \cup {{c} : c \in JournalCalls} :
           Ran(PropagateLocalRenameStart(
                   JobState,
                   [clash |-> fault = "clash", renameOk |-> fault # "rename",
                    refused |-> refused,
                    updateMetadata |-> IF fault = "metadata" THEN "Error"
                                       ELSE IF fault = "locked" THEN "Locked"
                                       ELSE "Success",
                    queryOk |-> fault # "query", adjustOk |-> fault # "adjust",
                    inheritOk |-> inheritOk, pinOk |-> fault # "pin"]))
    /\ UNCHANGED <<usersVars, mj, fm, fmHistory, setup, encryptJob, fileDropMetadata>>


\* ------------------------------------------------------- FolderMetadata
\* (foldermetadata.cpp)
\* number of metadata keys generateRandom hands out in a run
MaxKeys == 3

\* _account->davUser() and the other user a folder is shared with
DavUser == "me"
UserIds == {DavUser, "u1"}

\* QSslCertificate: the certificate of a user, or a null certificate
NullCertificate == "null"
CertificateOf(userId) == IF userId = DavUser THEN "cert-me" ELSE "cert-u1"
Certificates == {CertificateOf(u) : u \in UserIds}

\* QSslCertificate::publicKey, toPem and the constructor from a PEM
PublicKey(certificate) ==
    IF certificate \in Certificates THEN certificate ELSE NullCertificate
ToPem(certificate) == IF certificate \in Certificates THEN certificate ELSE ""
FromPem(pem) == IF pem \in Certificates THEN pem ELSE NullCertificate

\* encryptData(data, key): RSA-OAEP under a public key; decryptData with the
\* private key of the account
EmptyData == [wrapped |-> EmptyKey, for |-> NullCertificate]
EncryptData(data, publicKey) ==
    IF publicKey = NullCertificate \/ data = EmptyKey THEN EmptyData
    ELSE [wrapped |-> data, for |-> publicKey]
DecryptData(data) ==
    IF data.for = PublicKey(CertificateOf(DavUser)) THEN data.wrapped ELSE EmptyKey

\* struct EncryptedFile; the default-constructed one has every field empty
EncryptedFile(encryptedFilename, originalFilename, encryptionKey, mimetype, iv, tag) ==
    [encryptedFilename |-> encryptedFilename, originalFilename |-> originalFilename,
     encryptionKey |-> encryptionKey, mimetype |-> mimetype,
     initializationVector |-> iv, authenticationTag |-> tag]

\* the entries the item jobs add: two files (one without a mimetype, one
\* that replaces another of the same name) and two directories
EncryptedFiles ==
    {EncryptedFile("e1", "a", "k1", "text/plain", "i1", "t1"),
     EncryptedFile("e2", "b", "k2", "", "i2", "t2"),
     EncryptedFile("e3", "c", "", "httpd/unix-directory", "", ""),
     EncryptedFile("e4", "d", "", "", "", ""),
     EncryptedFile("e5", "a", "k5", "image/png", "i5", "t5")}

\* a FolderMetadata after the member initialisers of its constructors
NewFolderMetadata(topLevelFolderPath) ==
    [topLevelFolderPath |-> topLevelFolderPath, files |-> {}, folderUsers |-> <<>>,
     keyChecksums |-> {}, metadataKeyForEncryption |-> EmptyKey,
     metadataKeyForDecryption |-> EmptyKey, versionFromMetadata |-> -1,
     requiredMetadataVersion |-> "Version2_0", migrationNeeded |-> FALSE,
     isMetadataSetup |-> FALSE, decrypted |-> FALSE]

\* FolderMetadata::isTopLevelFolder
IsTopLevelFolder(m) == m.topLevelFolderPath = "/"

\* FolderMetadata::metadataVersion; _versionFromMetadata is an int, so it
\* is below 1.2f when it is at most 1
MetadataVersion(m) ==
    IF m.versionFromMetadata <= 1 THEN "Version1"
    ELSE IF m.versionFromMetadata < 2 THEN "Version1_2"
    ELSE "Version2_0"

\* enum RequiredMetadataVersion as the int the comparisons cast it to
VersionRank(version) ==
    IF version = "Version1" THEN 0 ELSE IF version = "Version1_2" THEN 1 ELSE 2

\* fault: the checksum of the key that is replaced stays in the set
CreateNewMetadataKeyKeepingChecksum(m, random) ==
    [m EXCEPT !.metadataKeyForEncryption = random,
              !.keyChecksums = @ \cup {CalcSha256(random)}]

\* FolderMetadata::createNewMetadataKeyForEncryption; random is what
\* generateRandom returns
CreateNewMetadataKeyForEncryption(m, random) ==
    IF ~IsTopLevelFolder(m) THEN m
    ELSE LET removed == IF m.metadataKeyForEncryption # EmptyKey
                        THEN m.keyChecksums \ {CalcSha256(m.metadataKeyForEncryption)}
                        ELSE m.keyChecksums
         IN [m EXCEPT !.metadataKeyForEncryption = random,
                      !.keyChecksums = IF random # EmptyKey
                                       THEN removed \cup {CalcSha256(random)}
                                       ELSE removed]

\* FolderMetadata::updateUsersEncryptedMetadataKey; failing holds the public
\* keys under which encryptStringAsymmetric gives nothing in this call
UpdateUsersEncryptedMetadataKey(m, failing) ==
    IF ~IsTopLevelFolder(m) \/ m.metadataKeyForEncryption = EmptyKey THEN m
    ELSE [m EXCEPT !.folderUsers =
              [u \in DOMAIN m.folderUsers |->
                  LET folderUser == m.folderUsers[u]
                      certificatePublicKey == PublicKey(FromPem(folderUser.certificatePem))
                      encryptedMetadataKey ==
                          IF certificatePublicKey \in failing THEN EmptyData
                          ELSE EncryptData(m.metadataKeyForEncryption, certificatePublicKey)
                  IN IF certificatePublicKey = NullCertificate
                        \/ encryptedMetadataKey = EmptyData
                     THEN folderUser
                     ELSE [folderUser EXCEPT !.encryptedMetadataKey = encryptedMetadataKey]]]

\* FolderMetadata::addUser: the object after the call and what it returns
AddUser(m, userId, certificate, random, failing) ==
    IF ~IsTopLevelFolder(m) THEN [m |-> m, result |-> FALSE]
    ELSE IF userId = "" \/ certificate = NullCertificate
            \/ PublicKey(certificate) = NullCertificate
    THEN [m |-> m, result |-> FALSE]
    ELSE LET keyed == CreateNewMetadataKeyForEncryption(m, random)
             newFolderUser ==
                 [userId |-> userId, certificatePem |-> ToPem(certificate),
                  encryptedMetadataKey |->
                      IF PublicKey(certificate) \in failing THEN EmptyData
                      ELSE EncryptData(keyed.metadataKeyForEncryption,
                                       PublicKey(certificate)),
                  encryptedFiledropKey |-> EmptyData]
         IN [m |-> UpdateUsersEncryptedMetadataKey(
                       [keyed EXCEPT !.folderUsers = With(@, userId, newFolderUser)],
                       failing),
             result |-> TRUE]

\* FolderMetadata::removeUser
RemoveUser(m, userId, random, failing) ==
    IF ~IsTopLevelFolder(m) \/ userId = "" THEN [m |-> m, result |-> FALSE]
    ELSE LET keyed == CreateNewMetadataKeyForEncryption(m, random)
             Gone(u) == u = userId
         IN [m |-> UpdateUsersEncryptedMetadataKey(
                       [keyed EXCEPT !.folderUsers = Without(@, Gone)], failing),
             result |-> TRUE]

\* FolderMetadata::addEncryptedFile
AddEncryptedFile(m, f) ==
    [m EXCEPT !.files =
         {g \in @ : g.originalFilename # f.originalFilename} \cup {f}]

\* FolderMetadata::removeEncryptedFile
RemoveEncryptedFile(m, f) ==
    [m EXCEPT !.files = {g \in @ : g.originalFilename # f.originalFilename}]

\* fault: setupEmptyMetadata that leaves the decryption key as it was
SetupEmptyMetadataKeepingDecryptionKey(m, random, failing) ==
    IF IsTopLevelFolder(m)
    THEN AddUser(m, DavUser, CertificateOf(DavUser), random, failing).m
    ELSE m

\* FolderMetadata::setupEmptyMetadata
SetupEmptyMetadata(m, random, failing) ==
    IF IsTopLevelFolder(m)
    THEN LET added == AddUser(m, DavUser, CertificateOf(DavUser), random, failing).m
         IN [added EXCEPT !.metadataKeyForDecryption = added.metadataKeyForEncryption]
    ELSE m

\* FolderMetadata::verifyMetadataKey
VerifyMetadataKey(m, metadataKey) ==
    IF m.versionFromMetadata < 2 THEN TRUE
    ELSE IF metadataKey = EmptyKey \/ KeySize(metadataKey) < MetadataKeySize THEN FALSE
    ELSE LET metadataKeyLimitedLength == KeyLeft(metadataKey, MetadataKeySize)
         IN CalcSha256(metadataKeyLimitedLength) \in m.keyChecksums
                \/ m.keyChecksums = {}

\* AES-GCM under a key and a nonce, after gzip and before base64, and back;
\* NoPlainText is the empty array a failed decryption gives
NoPlainText == [empty |-> TRUE, files |-> <<>>, folders |-> <<>>, keyChecksums |-> {}]
GZipEncryptAndBase64Encode(key, inputData, iv) ==
    [key |-> key, iv |-> iv, data |-> inputData]
Base64DecodeDecryptAndGzipUnZip(key, inputData, iv) ==
    IF inputData.key = key /\ inputData.iv = iv /\ key # EmptyKey
    THEN inputData.data ELSE NoPlainText

\* the nonce generateRandom gives encryptedMetadata
Nonce == "nonce"

\* FolderMetadata::convertFileToJsonObject
ConvertFileToJsonObject(encryptedFile) ==
    [key |-> encryptedFile.encryptionKey, filename |-> encryptedFile.originalFilename,
     mimetype |-> encryptedFile.mimetype,
     initializationVector |-> encryptedFile.initializationVector,
     authenticationTag |-> encryptedFile.authenticationTag]

\* FolderMetadata::parseEncryptedFileFromJson
ParseEncryptedFileFromJson(encryptedFilename, fileObj) ==
    IF fileObj.filename = "" THEN EncryptedFile("", "", "", "", "", "")
    ELSE EncryptedFile(encryptedFilename, fileObj.filename, fileObj.key,
                       IF fileObj.mimetype = "inode/directory"
                       THEN "httpd/unix-directory" ELSE fileObj.mimetype,
                       fileObj.initializationVector, fileObj.authenticationTag)

\* A JSON number is written in tenths (12 is 1.2); Absent: the key is not
\* in the object.  QJsonValue::toInt gives 0 for a number that is not whole.
Absent == -1
ToInt(number) == IF number % 10 = 0 THEN number \div 10 ELSE 0

\* requiredMetadataVersionNumeric, as the JSON number it is written as
RequiredMetadataVersionNumeric(m) ==
    IF m.requiredMetadataVersion = "Version1" THEN 10
    ELSE IF m.requiredMetadataVersion = "Version1_2" THEN 12
    ELSE 20

\* The metadata of a folder as the server gives it: empty, or a document
\* with the keys of version 2.0 (version, metadata.ciphertext, users) and
\* of the legacy versions (metadata.version, metadata.metadataKey,
\* metadata.metadataKeys, metadata.checksum, files).
Document(version, metadata, users, metadataVersion, metadataKey, metadataKeys, checksum, files) ==
    [empty |-> FALSE, version |-> version, metadata |-> metadata, users |-> users,
     metadataVersion |-> metadataVersion, metadataKey |-> metadataKey,
     metadataKeys |-> metadataKeys, checksum |-> checksum, files |-> files]

NoCipherText == GZipEncryptAndBase64Encode(EmptyKey, NoPlainText, Nonce)
NoChecksum == [mnemonic |-> "", names |-> {}, metadataKey |-> EmptyData]

\* what encryptedMetadata returns when it fails, and an empty metadata
EmptyDocument ==
    [Document(Absent, NoCipherText, {}, Absent, EmptyData, <<>>, NoChecksum, <<>>)
         EXCEPT !.empty = TRUE]

\* fault: encryptedMetadata that does not look at the users array
EncryptedMetadataWithoutUsersCheck(m, random) ==
    LET keyed == IF IsTopLevelFolder(m) /\ DOMAIN m.folderUsers = {}
                    /\ VersionRank(MetadataVersion(m)) < VersionRank("Version2_0")
                 THEN CreateNewMetadataKeyForEncryption(m, random)
                 ELSE m
        IsDir(f) == f.mimetype \in {"", "inode/directory", "httpd/unix-directory"}
        files == [name \in {f.encryptedFilename : f \in {g \in keyed.files : ~IsDir(g)}} |->
                     ConvertFileToJsonObject(
                         CHOOSE f \in keyed.files : ~IsDir(f) /\ f.encryptedFilename = name)]
        folders == [name \in {f.encryptedFilename : f \in {g \in keyed.files : IsDir(g)}} |->
                       (CHOOSE f \in keyed.files :
                            IsDir(f) /\ f.encryptedFilename = name).originalFilename]
        keyChecksums == IF IsTopLevelFolder(keyed) THEN keyed.keyChecksums ELSE {}
        cipherText == [empty |-> FALSE, files |-> files, folders |-> folders,
                       keyChecksums |-> keyChecksums]
        folderUsers ==
            IF IsTopLevelFolder(keyed)
            THEN {[userId |-> keyed.folderUsers[u].userId,
                   certificate |-> keyed.folderUsers[u].certificatePem,
                   encryptedMetadataKey |-> keyed.folderUsers[u].encryptedMetadataKey,
                   encryptedFiledropKey |-> keyed.folderUsers[u].encryptedFiledropKey] :
                      u \in DOMAIN keyed.folderUsers}
            ELSE {}
        nothing == [m |-> keyed, doc |-> EmptyDocument]
    IN IF keyed.metadataKeyForEncryption = EmptyKey THEN nothing
       ELSE IF IsTopLevelFolder(keyed) = (keyChecksums = {}) THEN nothing
       ELSE [m |-> keyed,
             doc |-> Document(RequiredMetadataVersionNumeric(keyed),
                              GZipEncryptAndBase64Encode(
                                  keyed.metadataKeyForEncryption, cipherText, Nonce),
                              folderUsers, Absent, EmptyData, <<>>, NoChecksum, <<>>)]

\* FolderMetadata::encryptedMetadata: the object after the call and the
\* document it returns
EncryptedMetadata(m, random) ==
    LET keyed == IF IsTopLevelFolder(m) /\ DOMAIN m.folderUsers = {}
                    /\ VersionRank(MetadataVersion(m)) < VersionRank("Version2_0")
                 THEN CreateNewMetadataKeyForEncryption(m, random)
                 ELSE m
        IsDir(f) == f.mimetype \in {"", "inode/directory", "httpd/unix-directory"}
        files == [name \in {f.encryptedFilename : f \in {g \in keyed.files : ~IsDir(g)}} |->
                     ConvertFileToJsonObject(
                         CHOOSE f \in keyed.files : ~IsDir(f) /\ f.encryptedFilename = name)]
        folders == [name \in {f.encryptedFilename : f \in {g \in keyed.files : IsDir(g)}} |->
                       (CHOOSE f \in keyed.files :
                            IsDir(f) /\ f.encryptedFilename = name).originalFilename]
        keyChecksums == IF IsTopLevelFolder(keyed) THEN keyed.keyChecksums ELSE {}
        cipherText == [empty |-> FALSE, files |-> files, folders |-> folders,
                       keyChecksums |-> keyChecksums]
        folderUsers ==
            IF IsTopLevelFolder(keyed)
            THEN {[userId |-> keyed.folderUsers[u].userId,
                   certificate |-> keyed.folderUsers[u].certificatePem,
                   encryptedMetadataKey |-> keyed.folderUsers[u].encryptedMetadataKey,
                   encryptedFiledropKey |-> keyed.folderUsers[u].encryptedFiledropKey] :
                      u \in DOMAIN keyed.folderUsers}
            ELSE {}
        nothing == [m |-> keyed, doc |-> EmptyDocument]
    IN IF keyed.metadataKeyForEncryption = EmptyKey THEN nothing
       ELSE IF IsTopLevelFolder(keyed) = (keyChecksums = {}) THEN nothing
       ELSE IF IsTopLevelFolder(keyed) = (folderUsers = {}) THEN nothing
       ELSE [m |-> keyed,
             doc |-> Document(RequiredMetadataVersionNumeric(keyed),
                              GZipEncryptAndBase64Encode(
                                  keyed.metadataKeyForEncryption, cipherText, Nonce),
                              folderUsers, Absent, EmptyData, <<>>, NoChecksum, <<>>)]

\* FolderMetadata::setupVersionFromExistingMetadata
SetupVersionFromExistingMetadata(m, doc) ==
    LET inner == IF doc.metadataVersion # Absent
                 THEN [m EXCEPT !.versionFromMetadata = ToInt(doc.metadataVersion)]
                 ELSE m
    IN IF doc.version # Absent
       THEN [inner EXCEPT !.versionFromMetadata = ToInt(doc.version)]
       ELSE inner

\* _account->e2e()->_mnemonic, and FolderMetadata::computeMetadataKeyChecksum:
\* SHA-256 over the mnemonic, the sorted encrypted file names and the key
Mnemonic == "mnemonic"
ComputeMetadataKeyChecksum(m, metadataKey) ==
    [mnemonic |-> Mnemonic, names |-> {f.encryptedFilename : f \in m.files},
     metadataKey |-> metadataKey]

\* FolderMetadata::checkMetadataKeyChecksum
CheckMetadataKeyChecksum(m, metadataKey, metadataKeyChecksum) ==
    ComputeMetadataKeyChecksum(m, metadataKey) = metadataKeyChecksum

\* encryptJsonObject / decryptJsonObject: a legacy file entry encrypted
\* under the metadata key; a wrong key gives an entry without a file name
EncryptJsonObject(obj, pass) == [pass |-> pass, obj |-> obj]
DecryptJsonObject(encrypted, pass) ==
    IF encrypted.pass = pass THEN encrypted.obj
    ELSE [key |-> "", filename |-> "", mimetype |-> ""]

\* FolderMetadata::setupExistingLegacyMetadataForMigration;
\* skipValidation is _account->shouldSkipE2eeMetadataChecksumValidation()
SetupExistingLegacyMetadataForMigration(m, doc, skipValidation) ==
    LET cleared == [m EXCEPT !.metadataKeyForDecryption = EmptyKey]
        fromKey == IF doc.metadataKey # EmptyData /\ DecryptData(doc.metadataKey) # EmptyKey
                   THEN [cleared EXCEPT !.metadataKeyForDecryption =
                                            DecryptData(doc.metadataKey)]
                   ELSE cleared
        migrating == fromKey.metadataKeyForDecryption = EmptyKey
                     /\ VersionRank(MetadataVersion(fromKey))
                            < VersionRank(fromKey.requiredMetadataVersion)
        last == doc.metadataKeys[Len(doc.metadataKeys)]
        fromKeys == IF migrating /\ doc.metadataKeys # <<>> /\ last # EmptyData
                       /\ DecryptData(last) # EmptyKey
                    THEN [fromKey EXCEPT !.metadataKeyForDecryption = DecryptData(last)]
                    ELSE fromKey
        keyed == IF fromKeys.metadataKeyForEncryption = EmptyKey
                 THEN [fromKeys EXCEPT !.metadataKeyForEncryption =
                                           fromKeys.metadataKeyForDecryption]
                 ELSE fromKeys
        Decrypted(name) ==
            DecryptJsonObject(doc.files[name].encrypted, keyed.metadataKeyForDecryption)
        parsed ==
            {EncryptedFile(name, Decrypted(name).filename, Decrypted(name).key,
                           IF Decrypted(name).mimetype = "inode/directory"
                           THEN "httpd/unix-directory" ELSE Decrypted(name).mimetype,
                           doc.files[name].initializationVector,
                           doc.files[name].authenticationTag) :
                 name \in {n \in DOMAIN doc.files : Decrypted(n).filename # ""}}
        withFiles == [keyed EXCEPT !.files = @ \cup parsed, !.decrypted = TRUE]
    IN IF migrating /\ doc.metadataKeys = <<>> THEN fromKey
       ELSE IF fromKeys.metadataKeyForDecryption = EmptyKey THEN fromKeys
       ELSE IF ~CheckMetadataKeyChecksum(withFiles, doc.metadataKey, doc.checksum)
               /\ VersionRank(MetadataVersion(withFiles)) >= VersionRank("Version1_2")
               /\ ~skipValidation
       THEN withFiles
       ELSE [withFiles EXCEPT !.migrationNeeded = TRUE, !.isMetadataSetup = TRUE]

\* FolderMetadata::setupExistingMetadata
SetupExistingMetadata(m, doc, skipValidation) ==
    LET versioned == SetupVersionFromExistingMetadata(m, doc)
        isUsersArrayValid == IsTopLevelFolder(m) = (doc.users # {})
        withUsers ==
            [versioned EXCEPT !.folderUsers =
                 [u \in DOMAIN @ \cup {o.userId : o \in doc.users} |->
                     IF u \in {o.userId : o \in doc.users}
                     THEN LET o == CHOOSE x \in doc.users : x.userId = u
                          IN [userId |-> o.userId, certificatePem |-> o.certificate,
                              encryptedMetadataKey |-> o.encryptedMetadataKey,
                              encryptedFiledropKey |-> o.encryptedFiledropKey]
                     ELSE @[u]]]
        key == IF DavUser \in DOMAIN withUsers.folderUsers
               THEN DecryptData(withUsers.folderUsers[DavUser].encryptedMetadataKey)
               ELSE withUsers.metadataKeyForEncryption
        keyed == IF DavUser \in DOMAIN withUsers.folderUsers
                 THEN [withUsers EXCEPT !.metadataKeyForEncryption = key,
                                        !.metadataKeyForDecryption = key]
                 ELSE withUsers
        cipherTextDocument ==
            Base64DecodeDecryptAndGzipUnZip(keyed.metadataKeyForDecryption, doc.metadata,
                                            doc.metadata.iv)
        decrypted == [keyed EXCEPT !.decrypted = TRUE]
        checked == IF cipherTextDocument.keyChecksums # {}
                   THEN [decrypted EXCEPT !.keyChecksums = cipherTextDocument.keyChecksums]
                   ELSE decrypted
        parsedFiles ==
            {ParseEncryptedFileFromJson(name, cipherTextDocument.files[name]) :
                 name \in DOMAIN cipherTextDocument.files}
        parsedFolders ==
            {EncryptedFile(name, cipherTextDocument.folders[name], "", "", "", "") :
                 name \in {n \in DOMAIN cipherTextDocument.folders :
                               cipherTextDocument.folders[n] # ""}}
    IN IF VersionRank(MetadataVersion(versioned)) < VersionRank("Version1") THEN versioned
       ELSE IF VersionRank(MetadataVersion(versioned)) < VersionRank("Version2_0")
       THEN SetupExistingLegacyMetadataForMigration(versioned, doc, skipValidation)
       ELSE IF ~isUsersArrayValid THEN versioned
       ELSE IF keyed.metadataKeyForDecryption = EmptyKey
               \/ keyed.metadataKeyForEncryption = EmptyKey
       THEN keyed
       ELSE IF cipherTextDocument.empty THEN keyed
       ELSE IF ~VerifyMetadataKey(checked, checked.metadataKeyForDecryption) THEN checked
       ELSE [checked EXCEPT !.files =
                 @ \cup {f \in parsedFiles : f.originalFilename # ""} \cup parsedFolders]

\* FolderMetadata::setupMetadata; _initialMetadata is doc
SetupMetadata(m, doc, random, skipValidation) ==
    IF doc.empty THEN SetupEmptyMetadata(m, random, {})
    ELSE SetupExistingMetadata(m, doc, skipValidation)


\* ------------------------------------------- the file drop of a FolderMetadata
\* the members moveFromFileDropToFiles reads and writes, and what its calls
\* returned (history)
NewFileDropMetadata(files, metadataKeyForEncryption, fileDrop, metadataNonce) ==
    [files |-> files, metadataKeyForEncryption |-> metadataKeyForEncryption,
     fileDropCipherTextEncryptedAndBase64 |-> fileDrop, metadataNonce |-> metadataNonce,
     returned |-> <<>>, filesWhenReturned |-> <<>>,
     before |-> [files |-> files, fileDrop |-> fileDrop]]

\* an empty _fileDropCipherTextEncryptedAndBase64
NoFileDrop == GZipEncryptAndBase64Encode(EmptyKey, NoPlainText, "")

\* the file-drop sections other users upload: files and folders by their
\* encrypted names, some without a name
FileDropSections ==
    LET File(f) == ConvertFileToJsonObject(f)
        a == EncryptedFile("e1", "a", "k1", "text/plain", "i1", "t1")
        unnamed == EncryptedFile("e2", "", "k2", "text/plain", "i2", "t2")
        Section(files, folders) ==
            [empty |-> FALSE, files |-> files, folders |-> folders, keyChecksums |-> {}]
    IN {Section(<<>>, <<>>),
        Section([n \in {"e1"} |-> File(a)], <<>>),
        Section(<<>>, [n \in {"e3"} |-> "c"]),
        Section([n \in {"e1", "e2"} |-> IF n = "e1" THEN File(a) ELSE File(unnamed)],
                [n \in {"e3", "e4"} |-> IF n = "e3" THEN "c" ELSE ""])}

\* FolderMetadata::moveFromFileDropToFiles: the object after the call and
\* what the call returned; the entry built for a folder is not added to _files
MoveFromFileDropToFiles(d) ==
    LET cipherTextDocument ==
            Base64DecodeDecryptAndGzipUnZip(d.metadataKeyForEncryption,
                                            d.fileDropCipherTextEncryptedAndBase64,
                                            d.metadataNonce)
        parsed == {ParseEncryptedFileFromJson(name, cipherTextDocument.files[name]) :
                       name \in DOMAIN cipherTextDocument.files}
    IN IF d.fileDropCipherTextEncryptedAndBase64 = NoFileDrop
          \/ d.metadataKeyForEncryption = EmptyKey \/ d.metadataNonce = ""
       THEN [m |-> d, result |-> FALSE]
       ELSE [m |-> [d EXCEPT !.files = @ \cup {f \in parsed : f.originalFilename # ""},
                             !.fileDropCipherTextEncryptedAndBase64 = NoFileDrop],
             result |-> TRUE]

\* FolderMetadata::isFileDropPresent
IsFileDropPresent(d) == d.fileDropCipherTextEncryptedAndBase64 # NoFileDrop

\* no such object was made
FileDropAbsent ==
    fileDropMetadata = NewFileDropMetadata({}, EmptyKey, NoFileDrop, "")

\* a FolderMetadata after its setup: with or without files, a key, a nonce,
\* and a file drop encrypted under its key or under another one
FileDropInit ==
    \E files \in {{}, {EncryptedFile("e5", "a", "k5", "image/png", "i5", "t5")}},
       key \in {EmptyKey, GenerateRandom(1, MetadataKeySize)},
       metadataNonce \in {"", Nonce},
       fileDrop \in {NoFileDrop}
           \cup {GZipEncryptAndBase64Encode(GenerateRandom(k, MetadataKeySize), section, Nonce) :
                     k \in 1..2, section \in FileDropSections} :
        fileDropMetadata = NewFileDropMetadata(files, key, fileDrop, metadataNonce)

\* a caller (UpdateE2eeFolderMetadataJob) calls moveFromFileDropToFiles
FileDropMoved ==
    /\ Len(fileDropMetadata.returned) < MaxCalls
    /\ \E r \in {MoveFromFileDropToFiles(fileDropMetadata)} :
           fileDropMetadata' =
               [r.m EXCEPT !.returned = Append(@, r.result),
                           !.filesWhenReturned = Append(@, r.m.files)]
    /\ UNCHANGED <<usersVars, mj, propagator, itemJob, fm, fmHistory, setup, encryptJob>>

\* ------------------------------------- the construction of a FolderMetadata
\* (the constructors, the fetch of the top-level folder's metadata for a
\* sub-folder, and setupComplete)

\* FolderMetadata::isVersion2AndUp and FolderMetadata::isMetadataSetup
\* (_metadataKeys is never filled)
IsVersion2AndUp(m) == VersionRank(MetadataVersion(m)) >= VersionRank("Version2_0")
IsMetadataSetup(m) == m.metadataKeyForDecryption # EmptyKey

\* the keys of the documents the server holds
SharedKey == GenerateRandom(7, MetadataKeySize)
LegacyKey == GenerateRandom(8, MetadataKeySize)

\* a top-level FolderMetadata shared by the account and u1, with one file
SharedFolder ==
    LET own == SetupEmptyMetadata(NewFolderMetadata("/"),
                                  GenerateRandom(6, MetadataKeySize), {})
        shared == AddUser(own, "u1", CertificateOf("u1"), SharedKey, {}).m
    IN AddEncryptedFile([shared EXCEPT !.metadataKeyForDecryption = SharedKey],
                        EncryptedFile("e1", "a", "k1", "text/plain", "i1", "t1"))

\* version 2.0 documents: of a shared top-level folder, the same without
\* the account in its users array, and of a sub-folder
TopLevelDocument == EncryptedMetadata(SharedFolder, EmptyKey).doc
TopLevelDocumentOfOthers ==
    [TopLevelDocument EXCEPT !.users = {o \in @ : o.userId # DavUser}]
SubFolderDocument ==
    EncryptedMetadata([SharedFolder EXCEPT !.topLevelFolderPath = "/top",
                                           !.folderUsers = <<>>], EmptyKey).doc

\* legacy documents: the version inside the metadata object, the metadata
\* key wrapped for the account as metadataKey (1.2) or as the last of
\* metadataKeys (1.0), a checksum and one file
LegacyVersions == {Absent, 0, 9, 10, 12}
LegacyFiles ==
    [name \in {"e1"} |->
        [encrypted |-> EncryptJsonObject([key |-> "k1", filename |-> "a",
                                          mimetype |-> "text/plain"], LegacyKey),
         initializationVector |-> "i1", authenticationTag |-> "t1"]]
LegacyDocument(metadataVersion, asMetadataKey, checksumMatches) ==
    LET wrapped == EncryptData(LegacyKey, PublicKey(CertificateOf(DavUser)))
        metadataKey == IF asMetadataKey THEN wrapped ELSE EmptyData
    IN Document(Absent, NoCipherText, {}, metadataVersion, metadataKey,
                IF asMetadataKey THEN <<>> ELSE <<wrapped>>,
                IF checksumMatches
                THEN [mnemonic |-> Mnemonic, names |-> {"e1"}, metadataKey |-> metadataKey]
                ELSE NoChecksum,
                LegacyFiles)
\* a legacy document whose metadata key is wrapped for another user
LegacyDocumentOfOthers ==
    [LegacyDocument(10, TRUE, TRUE) EXCEPT
         !.metadataKey = EncryptData(LegacyKey, PublicKey(CertificateOf("u1")))]
LegacyDocuments ==
    {LegacyDocument(v, k, c) : v \in LegacyVersions, k \in BOOLEAN, c \in BOOLEAN}
        \cup {LegacyDocumentOfOthers}

Documents ==
    {EmptyDocument, TopLevelDocument, TopLevelDocumentOfOthers, SubFolderDocument}
        \cup LegacyDocuments

\* TopLevelFolderInitializationData: no keys, keys without checksums (the
\* key of the shared folder or another), and the keys and checksums of the
\* shared folder
TopLevelFolderInitializationData(folderPath, key, checksums) ==
    [topLevelFolderPath |-> folderPath, metadataKeyForEncryption |-> key,
     metadataKeyForDecryption |-> key, keyChecksums |-> checksums]
InitializationData ==
    {TopLevelFolderInitializationData(folderPath, EmptyKey, {}) : folderPath \in {"/", "/top", ""}}
        \cup {TopLevelFolderInitializationData(folderPath, SharedKey, {}) : folderPath \in {"/", ""}}
        \cup {TopLevelFolderInitializationData("/", LegacyKey, {})}
        \cup {TopLevelFolderInitializationData(folderPath, SharedKey, {CalcSha256(SharedKey)}) :
                  folderPath \in {"/", "/top"}}
KeysSet(data) ==
    /\ data.metadataKeyForEncryption # EmptyKey
    /\ data.metadataKeyForDecryption # EmptyKey
    /\ data.keyChecksums # {}

\* the keys verifyMetadataKey is asked about: none, one that is too short,
\* those of the documents, and longer ones
Keys ==
    {EmptyKey, GenerateRandom(7, MetadataKeySize - 1), SharedKey, LegacyKey,
     SharedKey * 10 + 8, LegacyKey * 10 + 7}

NoCall == [op |-> "none", key |-> EmptyKey, result |-> FALSE, doc |-> EmptyDocument]

\* the construction before a constructor ran
NewSetup(m, doc, skipValidation) ==
    [kind |-> "given", m |-> m, doc |-> doc, skipValidation |-> skipValidation,
     pending |-> "none", top |-> NewFolderMetadata(""), topTimers |-> 0,
     timers |-> 0, emitted |-> 0, nextKey |-> 1, last |-> NoCall]

\* FolderMetadata::emitSetupComplete: a single-shot timer is queued
EmitSetupComplete(s) == [s EXCEPT !.timers = @ + 1]

\* fault: setupMetadata that does not emit after an existing metadata
SetupMetadataSilentOnExisting(s) ==
    LET ready == [s EXCEPT !.m = SetupMetadata(s.m, s.doc,
                                     GenerateRandom(s.nextKey, MetadataKeySize),
                                     s.skipValidation),
                           !.nextKey = @ + 1, !.pending = "none"]
    IN IF s.doc.empty THEN EmitSetupComplete(ready) ELSE ready

\* FolderMetadata::setupMetadata with the emission both of its branches end in
SetupMetadataAndEmit(s) ==
    EmitSetupComplete(
        [s EXCEPT !.m = SetupMetadata(s.m, s.doc,
                                      GenerateRandom(s.nextKey, MetadataKeySize),
                                      s.skipValidation),
                  !.nextKey = @ + 1, !.pending = "none"])

\* FolderMetadata::FolderMetadata(account): an empty top-level metadata
DefaultConstructed(failing) ==
    LET s == NewSetup(NewFolderMetadata("/"), EmptyDocument, FALSE)
    IN EmitSetupComplete(
           [s EXCEPT !.kind = "default",
                     !.m = SetupEmptyMetadata(s.m, GenerateRandom(1, MetadataKeySize),
                                                  failing),
                     !.nextKey = 2])

\* FolderMetadata::FolderMetadata(account, metadata, initialization data)
Constructed(doc, data, skipValidation) ==
    LET m == [NewFolderMetadata(data.topLevelFolderPath) EXCEPT
                  !.metadataKeyForEncryption = data.metadataKeyForEncryption,
                  !.metadataKeyForDecryption = data.metadataKeyForDecryption,
                  !.keyChecksums = data.keyChecksums]
        s == NewSetup(m, doc, skipValidation)
    IN IF ~IsTopLevelFolder(m) /\ ~KeysSet(data) /\ data.topLevelFolderPath # ""
       THEN [s EXCEPT !.pending = "listing"]
       ELSE SetupMetadataAndEmit(s)

\* FolderMetadata::topLevelFolderEncryptedMetadataReceived; json is the
\* empty document when the fetch failed
TopLevelFolderEncryptedMetadataReceived(s, json) ==
    IF json.empty THEN SetupMetadataAndEmit(s)
    ELSE [s EXCEPT !.pending = "topLevel",
                   !.top = SetupMetadata(NewFolderMetadata("/"), json, EmptyKey,
                                         s.skipValidation),
                   !.topTimers = 1]

\* FolderMetadata::topLevelFolderEncryptedIdReceived (found: _folderInfos is
\* not empty) and topLevelFolderEncryptedIdError
TopLevelFolderEncryptedIdReceived(s, found) ==
    IF ~found THEN TopLevelFolderEncryptedMetadataReceived(s, EmptyDocument)
    ELSE [s EXCEPT !.pending = "metadata"]

\* the slot connected to the top-level object's setupComplete
TopLevelSetupComplete(s) ==
    LET t == [s EXCEPT !.topTimers = 0]
        withKey == [t EXCEPT !.m.metadataKeyForEncryption = t.top.metadataKeyForEncryption]
        withAll == [withKey EXCEPT
                        !.m.metadataKeyForDecryption = t.top.metadataKeyForDecryption,
                        !.m.keyChecksums = t.top.keyChecksums]
    IN IF ~IsMetadataSetup(t.top) \/ ~IsVersion2AndUp(t.top) THEN SetupMetadataAndEmit(t)
       ELSE IF ~IsVersion2AndUp(withKey.m) THEN SetupMetadataAndEmit(withKey)
       ELSE SetupMetadataAndEmit(withAll)

SetupAbsent == setup = NewSetup(NewFolderMetadata(""), EmptyDocument, FALSE)

\* the state after one of the constructors returned
SetupConstructed ==
    \/ \E failing \in SUBSET {CertificateOf(DavUser)} : setup = DefaultConstructed(failing)
    \/ \E doc \in Documents, data \in InitializationData, skipValidation \in BOOLEAN :
           setup = Constructed(doc, data, skipValidation)

\* the single-shot timer of emitSetupComplete fires: setupComplete is emitted
SetupCompleteEmitted ==
    /\ setup.timers > 0
    /\ setup' = [setup EXCEPT !.timers = @ - 1, !.emitted = @ + 1]
    /\ UNCHANGED <<usersVars, mj, propagator, itemJob, fm, fmHistory, encryptJob, fileDropMetadata>>

\* the LsColJob of startFetchTopLevelFolderMetadata answers
TopLevelFolderListed ==
    /\ setup.pending = "listing"
    /\ \E found \in BOOLEAN : setup' = TopLevelFolderEncryptedIdReceived(setup, found)
    /\ UNCHANGED <<usersVars, mj, propagator, itemJob, fm, fmHistory, encryptJob, fileDropMetadata>>

\* the GetMetadataApiJob of fetchTopLevelFolderMetadata answers
TopLevelFolderMetadataFetched ==
    /\ setup.pending = "metadata"
    /\ \E json \in {EmptyDocument, TopLevelDocument, TopLevelDocumentOfOthers,
                    LegacyDocument(10, TRUE, TRUE)} :
           setup' = TopLevelFolderEncryptedMetadataReceived(setup, json)
    /\ UNCHANGED <<usersVars, mj, propagator, itemJob, fm, fmHistory, encryptJob, fileDropMetadata>>

\* the top-level object emits setupComplete
TopLevelFolderSetupComplete ==
    /\ setup.pending = "topLevel"
    /\ setup.topTimers > 0
    /\ setup' = TopLevelSetupComplete(setup)
    /\ UNCHANGED <<usersVars, mj, propagator, itemJob, fm, fmHistory, encryptJob, fileDropMetadata>>

\* the object is set up: its owner calls verifyMetadataKey
SetupVerifyMetadataKey ==
    /\ setup.emitted > 0
    /\ \E key \in Keys :
           setup' = [setup EXCEPT !.last = [op |-> "verifyMetadataKey", key |-> key,
                                            result |-> VerifyMetadataKey(setup.m, key),
                                            doc |-> EmptyDocument]]
    /\ UNCHANGED <<usersVars, mj, propagator, itemJob, fm, fmHistory, encryptJob, fileDropMetadata>>

\* the object is set up: its owner calls encryptedMetadata
SetupEncryptedMetadata ==
    /\ setup.emitted > 0
    /\ setup.nextKey <= MaxKeys
    /\ \E r \in {EncryptedMetadata(setup.m, GenerateRandom(setup.nextKey, MetadataKeySize))} :
           setup' = [setup EXCEPT !.m = r.m, !.nextKey = @ + 1,
                                  !.last = [op |-> "encryptedMetadata", key |-> EmptyKey,
                                            result |-> ~r.doc.empty, doc |-> r.doc]]
    /\ UNCHANGED <<usersVars, mj, propagator, itemJob, fm, fmHistory, encryptJob, fileDropMetadata>>

\* the object is set up: its owner removes the account from the users
SetupRemoveUser ==
    /\ setup.emitted > 0
    /\ setup.nextKey <= MaxKeys
    /\ IsTopLevelFolder(setup.m)
    /\ \E r \in {RemoveUser(setup.m, DavUser,
                            GenerateRandom(setup.nextKey, MetadataKeySize), {})} :
           setup' = [setup EXCEPT !.m = r.m, !.nextKey = @ + 1,
                                  !.last = [op |-> "removeUser", key |-> EmptyKey,
                                            result |-> r.result, doc |-> EmptyDocument]]
    /\ UNCHANGED <<usersVars, mj, propagator, itemJob, fm, fmHistory, encryptJob, fileDropMetadata>>

SetupNext ==
    \/ SetupCompleteEmitted
    \/ TopLevelFolderListed
    \/ TopLevelFolderMetadataFetched
    \/ TopLevelFolderSetupComplete
    \/ SetupVerifyMetadataKey
    \/ SetupEncryptedMetadata
    \/ SetupRemoveUser

\* ------------------------------------------------------- EncryptFolderJob
\* (encryptfolderjob.cpp)  The journal is the record of the folder's path:
\* "none" (no valid record), or its _e2eEncryptionStatus.
NoRecord == "none"
RecordStatuses == {NoRecord, "NotEncrypted", "Encrypted"}

\* a SyncJournalFileRecord as the job holds it: default-constructed records
\* have an empty path and are not valid
InvalidRecord == [path |-> "", status |-> "NotEncrypted"]
RecordOf(status) ==
    IF status = NoRecord THEN InvalidRecord ELSE [path |-> "folder", status |-> status]
IsValidRecord(rec) == rec.path # ""
IsE2eEncrypted(rec) == rec.status # "NotEncrypted"

\* the job after its constructor
NewEncryptFolderJob(journal, hasItem) ==
    [state |-> "notStarted", journal |-> journal, journalBefore |-> journal,
     hasItem |-> hasItem, writes |-> <<>>, calls |-> <<>>, finished |-> <<>>,
     errorString |-> ""]

EncryptCalled(e, what) == [e EXCEPT !.calls = Append(@, what)]
EncryptFinished(e, status, encryptionStatus) ==
    [e EXCEPT !.state = "finished",
              !.finished = Append(@, [status |-> status,
                                      encryptionStatus |-> encryptionStatus])]

\* EncryptFolderJob::start and slotSetEncryptionFlag
EncryptFolderJobStart(e) == EncryptCalled([e EXCEPT !.state = "flag"], "setEncryptionFlag")

\* SyncJournalDb::setFileRecord: the record is stored under its path
SetFileRecord(e, rec, ok) ==
    IF ~ok THEN e
    ELSE IF rec.path = "folder"
    THEN [e EXCEPT !.journal = rec.status, !.writes = Append(@, rec)]
    ELSE [e EXCEPT !.writes = Append(@, rec)]

\* OwncloudPropagator::updateMetadata(item): a record of the item is written
PropagatorUpdateMetadata(e, ok) ==
    IF ok THEN SetFileRecord(e, RecordOf("NotEncrypted"), TRUE) ELSE e

\* EncryptFolderJob::uploadMetadata up to the construction of the metadata
UploadMetadata(e, rootOk) ==
    IF ~rootOk THEN EncryptFinished(e, "Error", "NotEncrypted")
    ELSE EncryptCalled([e EXCEPT !.state = "setup"], "FolderMetadata")

\* EncryptFolderJob::slotEncryptionFlagSuccess; env: what the journal and
\* the propagator answer
SlotEncryptionFlagSuccess(e, env) ==
    LET got == EncryptCalled(e, "flagSuccess")
        rec == IF env.getOk THEN RecordOf(got.journal) ELSE InvalidRecord
        create == ~IsValidRecord(rec) /\ got.hasItem
        updated == IF create THEN PropagatorUpdateMetadata(got, env.updateOk) ELSE got
        recAfter == IF create /\ env.updateOk /\ env.getAgainOk
                    THEN RecordOf(updated.journal) ELSE rec
        marked == IF ~IsE2eEncrypted(recAfter)
                  THEN SetFileRecord(updated, [recAfter EXCEPT !.status = "Encrypted"],
                                     env.setOk)
                  ELSE updated
    IN UploadMetadata(marked, env.rootOk)

\* EncryptFolderJob::slotEncryptionFlagError
SlotEncryptionFlagError(e, errorMessage) ==
    EncryptFinished([e EXCEPT !.errorString = errorMessage], "Error", "NotEncrypted")

\* the slot connected to the empty metadata's setupComplete; valid is
\* isValid(), generated: encryptedMetadata() is not empty
EmptyMetadataSetupComplete(e, valid, generated) ==
    IF ~valid \/ ~generated
    THEN EncryptFinished([e EXCEPT !.errorString = "Could not generate the metadata"],
                         "Error", "NotEncrypted")
    ELSE EncryptCalled([e EXCEPT !.state = "upload"], "uploadMetadata")

\* EncryptFolderJob::slotUploadMetadataFinished
SlotUploadMetadataFinished(e, statusCode, message) ==
    IF statusCode # HttpOk
    THEN EncryptFinished([e EXCEPT !.errorString = message], "Error", "NotEncrypted")
    ELSE EncryptFinished(e, "Success", "Encrypted")

EncryptJobAbsent == encryptJob = NewEncryptFolderJob(NoRecord, FALSE)

EncryptJobInit ==
    \E journal \in RecordStatuses, hasItem \in BOOLEAN :
        encryptJob = NewEncryptFolderJob(journal, hasItem)

\* what the journal and the propagator answer in slotEncryptionFlagSuccess
JournalAnswers ==
    [getOk : BOOLEAN, updateOk : BOOLEAN, getAgainOk : BOOLEAN, setOk : BOOLEAN,
     rootOk : BOOLEAN]

EncryptStart ==
    /\ encryptJob.state = "notStarted"
    /\ encryptJob' = EncryptFolderJobStart(encryptJob)
    /\ UNCHANGED <<usersVars, mj, propagator, itemJob, fm, fmHistory, setup,
                   fileDropMetadata>>

\* SetEncryptionFlagApiJob emits success
EncryptionFlagSuccess ==
    /\ encryptJob.state = "flag"
    /\ \E env \in JournalAnswers : encryptJob' = SlotEncryptionFlagSuccess(encryptJob, env)
    /\ UNCHANGED <<usersVars, mj, propagator, itemJob, fm, fmHistory, setup,
                   fileDropMetadata>>

\* SetEncryptionFlagApiJob emits error
EncryptionFlagError ==
    /\ encryptJob.state = "flag"
    /\ encryptJob' = SlotEncryptionFlagError(encryptJob, "flag")
    /\ UNCHANGED <<usersVars, mj, propagator, itemJob, fm, fmHistory, setup,
                   fileDropMetadata>>

\* the empty FolderMetadata emits setupComplete
EncryptMetadataSetupComplete ==
    /\ encryptJob.state = "setup"
    /\ \E valid \in BOOLEAN, generated \in BOOLEAN :
           encryptJob' = EmptyMetadataSetupComplete(encryptJob, valid, generated)
    /\ UNCHANGED <<usersVars, mj, propagator, itemJob, fm, fmHistory, setup,
                   fileDropMetadata>>

\* the handler emits uploadFinished
EncryptUploadFinished ==
    /\ encryptJob.state = "upload"
    /\ \E statusCode \in {HttpOk, GenericError} :
           encryptJob' = SlotUploadMetadataFinished(encryptJob, statusCode, "upload")
    /\ UNCHANGED <<usersVars, mj, propagator, itemJob, fm, fmHistory, setup,
                   fileDropMetadata>>

EncryptNext ==
    \/ EncryptStart
    \/ EncryptionFlagSuccess
    \/ EncryptionFlagError
    \/ EncryptMetadataSetupComplete
    \/ EncryptUploadFinished

\* ---------------------------------------------- a FolderMetadata in use
\* the object default-constructed for a top-level path
FolderMetadataInit ==
    /\ fm = SetupEmptyMetadata(NewFolderMetadata("/"), GenerateRandom(1, MetadataKeySize), {})
    /\ fmHistory = [nextKey |-> 2, call |-> "none", userId |-> "", result |-> FALSE,
                    reparsed |-> FALSE, parsed |-> NewFolderMetadata("/"),
                    previous |-> [call |-> "none", userId |-> ""],
                    keyBefore |-> EmptyKey]

\* no FolderMetadata was constructed
FolderMetadataAbsent ==
    /\ fm = NewFolderMetadata("")
    /\ fmHistory = [nextKey |-> 1, call |-> "none", userId |-> "", result |-> FALSE,
                    reparsed |-> FALSE, parsed |-> NewFolderMetadata(""),
                    previous |-> [call |-> "none", userId |-> ""],
                    keyBefore |-> EmptyKey]

\* the public keys encryptStringAsymmetric fails under during one call
Failures == {{}, {CertificateOf("u1")}}

Called(what, userId, result, keys) ==
    fmHistory' = [fmHistory EXCEPT !.nextKey = @ + keys, !.call = what,
                                   !.userId = userId, !.result = result,
                                   !.reparsed = FALSE,
                                   !.keyBefore = IF keys > 0
                                                 THEN fm.metadataKeyForEncryption ELSE @,
                                   !.previous = [call |-> IF fmHistory.result
                                                          THEN fmHistory.call ELSE "none",
                                                 userId |-> fmHistory.userId]]

FmAddUser ==
    /\ fmHistory.nextKey <= MaxKeys
    /\ \E userId \in UserIds \cup {""}, certificate \in Certificates \cup {NullCertificate},
          failing \in Failures :
           \E r \in {AddUser(fm, userId, certificate,
                              GenerateRandom(fmHistory.nextKey, MetadataKeySize), failing)} :
               /\ fm' = r.m
               /\ Called("addUser", userId, r.result, IF r.result THEN 1 ELSE 0)
    /\ UNCHANGED <<usersVars, mj, propagator, itemJob, setup, encryptJob, fileDropMetadata>>

FmRemoveUser ==
    /\ fmHistory.nextKey <= MaxKeys
    /\ \E userId \in UserIds \cup {""}, failing \in Failures :
           \E r \in {RemoveUser(fm, userId,
                                 GenerateRandom(fmHistory.nextKey, MetadataKeySize), failing)} :
               /\ fm' = r.m
               /\ Called("removeUser", userId, r.result, IF r.result THEN 1 ELSE 0)
    /\ UNCHANGED <<usersVars, mj, propagator, itemJob, setup, encryptJob, fileDropMetadata>>

FmAddEncryptedFile ==
    /\ \E f \in EncryptedFiles :
           /\ f \notin fm.files
           /\ fm' = AddEncryptedFile(fm, f)
    /\ Called("addEncryptedFile", "", TRUE, 0)
    /\ UNCHANGED <<usersVars, mj, propagator, itemJob, setup, encryptJob, fileDropMetadata>>

FmRemoveEncryptedFile ==
    /\ \E f \in fm.files : fm' = RemoveEncryptedFile(fm, f)
    /\ Called("removeEncryptedFile", "", TRUE, 0)
    /\ UNCHANGED <<usersVars, mj, propagator, itemJob, setup, encryptJob, fileDropMetadata>>

\* encryptedMetadata() is called and what it returns is given, as the
\* metadata of the folder, to a new FolderMetadata of the same account
FmEncryptAndParse ==
    /\ fmHistory.nextKey <= MaxKeys
    /\ ~fmHistory.reparsed
    /\ \E r \in {EncryptedMetadata(fm, GenerateRandom(fmHistory.nextKey, MetadataKeySize))} :
           /\ fm' = r.m
           /\ fmHistory' =
                  [fmHistory EXCEPT
                       !.nextKey = @ + 2, !.call = "encryptedMetadata",
                       !.userId = "", !.result = ~r.doc.empty, !.reparsed = TRUE,
                       !.previous = [call |-> "none", userId |-> ""],
                       !.keyBefore = IF r.m.metadataKeyForEncryption
                                          # fm.metadataKeyForEncryption
                                     THEN fm.metadataKeyForEncryption ELSE @,
                       !.parsed = SetupMetadata(NewFolderMetadata("/"), r.doc,
                                                GenerateRandom(fmHistory.nextKey + 1,
                                                               MetadataKeySize), FALSE)]
    /\ UNCHANGED <<usersVars, mj, propagator, itemJob, setup, encryptJob, fileDropMetadata>>

MetadataNext ==
    \/ FmAddUser
    \/ FmRemoveUser
    \/ FmAddEncryptedFile
    \/ FmRemoveEncryptedFile
    \/ FmEncryptAndParse

MetadataInit ==
    /\ UsersJobAbsent
    /\ mj = MetadataJobAbsent
    /\ LocalJobsAbsent
    /\ SetupAbsent
    /\ EncryptJobAbsent
    /\ FileDropAbsent
    /\ FolderMetadataInit

\* a top-level FolderMetadata and the calls made on it
MetadataSpec == MetadataInit /\ [][MetadataNext]_vars

\* ------------------------------------------------------ specifications
LocalNext == LocalRemoveStart \/ LocalMkdirStart \/ LocalRenameStart

LocalInit ==
    /\ UsersJobAbsent
    /\ mj = MetadataJobAbsent
    /\ FolderMetadataAbsent
    /\ SetupAbsent
    /\ EncryptJobAbsent
    /\ FileDropAbsent
    /\ (LocalRemoveInit \/ LocalMkdirInit \/ LocalRenameInit)

\* the three local jobs, each run once on every directory it may be given
LocalSpec == LocalInit /\ [][LocalNext]_vars

EncryptInit ==
    /\ UsersJobAbsent
    /\ mj = MetadataJobAbsent
    /\ LocalJobsAbsent
    /\ FolderMetadataAbsent
    /\ SetupAbsent
    /\ EncryptJobInit
    /\ FileDropAbsent

\* one EncryptFolderJob on a folder, with every answer of its collaborators
EncryptSpec == EncryptInit /\ [][EncryptNext]_vars

FileDropInitial ==
    /\ UsersJobAbsent
    /\ mj = MetadataJobAbsent
    /\ LocalJobsAbsent
    /\ FolderMetadataAbsent
    /\ SetupAbsent
    /\ EncryptJobAbsent
    /\ FileDropInit

\* moveFromFileDropToFiles called up to MaxCalls times on one object
FileDropSpec == FileDropInitial /\ [][FileDropMoved]_vars

SetupInit ==
    /\ UsersJobAbsent
    /\ mj = MetadataJobAbsent
    /\ LocalJobsAbsent
    /\ FolderMetadataAbsent
    /\ EncryptJobAbsent
    /\ FileDropAbsent
    /\ SetupConstructed

\* every construction of a FolderMetadata, and the first calls on the object
SetupSpec == SetupInit /\ [][SetupNext]_vars

\* the timer of emitSetupComplete fires, and each network job and the
\* top-level object answer
SetupLiveSpec ==
    /\ SetupSpec
    /\ WF_vars(SetupCompleteEmitted)
    /\ WF_vars(TopLevelFolderListed)
    /\ WF_vars(TopLevelFolderMetadataFetched)
    /\ WF_vars(TopLevelFolderSetupComplete)

Next ==
    \/ SetSubJobSyncItems
    \/ StartJob
    \/ CertificateFetchedFromKeychain
    \/ CertificatesFetchedFromServer
    \/ CertificateWriteComplete
    \/ FetchFinished
    \/ UploadFinished
    \/ FolderUnlocked
    \/ MetadataJobScheduleSelfOrChild
    \/ MetadataJobFetchFinished
    \/ MetadataJobUploadFinished
    \/ MetadataJobFolderUnlocked

\* the jobs that exist: a folder-users job, a folder-metadata job, or a
\* re-encryption job and a folder-metadata job side by side
Init ==
    /\ \/ UsersJobInit /\ mj = MetadataJobAbsent
       \/ UsersJobAbsent /\ mj = MetadataJobNew
       \/ UsersJobInit /\ operation[TopJob] = "ReEncrypt" /\ mj = MetadataJobNew
    /\ LocalJobsAbsent
    /\ FolderMetadataAbsent
    /\ SetupAbsent
    /\ EncryptJobAbsent
    /\ FileDropAbsent

Spec == Init /\ [][Next]_vars

TypeOK ==
    /\ operation \in [Jobs -> Operations \cup {"None"}]
    /\ pending \in [Jobs -> {"notStarted", "none", "keychain", "server", "write",
                             "fetch", "upload"}]
    /\ subJobs \subseteq Records
    /\ folderMetadata \in [Jobs -> Metadatas]
    /\ folderUserCertificate \in [Jobs -> {"null", "cert"}]
    /\ path \in [Jobs -> Names]
    /\ subJobSyncItems \in [Names -> {"absent", "null", "item"}]
    /\ unlockRunning \in [Jobs -> BOOLEAN]
    /\ unlockConnections \in [Jobs -> 0..2]
    /\ succeeded \subseteq Records
    /\ failed \subseteq Records
    /\ lastEncryptionStatus \in {"none", "NotEncrypted"} \cup MetadataStatuses
    /\ folderToken \in [Jobs -> Tokens]
    /\ \A j \in Jobs : jobKeys[j].folderToken \in Tokens
    /\ mj.state \in {"Absent", "NotYetStarted", "Running"}
    /\ mj.pending \in {"none", "fetch", "upload", "unlock"}

\* the handler answers every request it accepted
LiveSpec ==
    Spec /\ WF_vars(FetchFinished) /\ WF_vars(UploadFinished) /\ WF_vars(FolderUnlocked)

\* --------------------------------------------------------------- properties
Has(seq, what) == \E i \in DOMAIN seq : seq[i].ev = what

HasCode(seq, what, code) == \E i \in DOMAIN seq : seq[i] = Event(what, code)

HasUnlock(seq) == Has(seq, "unlockFolder(true)") \/ Has(seq, "unlockFolder(false)")

FetchFailed(seq) ==
    \E i \in DOMAIN seq : seq[i].ev = "fetchFinished" /\ seq[i].code # HttpOk

UploadFailed(seq) ==
    \E i \in DOMAIN seq : seq[i].ev = "uploadFinished" /\ seq[i].code # HttpOk

\* the job the caller created adds or removes a user
AddOrRemove == operation[TopJob] \in {"Add", "Remove"}

NoOkCode(codes) == \A i \in DOMAIN codes : codes[i] # HttpOk

\* sub-job r was started and has not emitted finished (it is deleted when it does)
Running(r) == trace[r] # <<>>

\* C1: with Add or Remove, once the upload finished with a status other than
\* 200 the job has called unlockFolder(false), has no sub-jobs, and no status
\* it emits with finished() is 200, whatever the unlock returns.
C1_UploadFailureEndsInError ==
    (AddOrRemove /\ UploadFailed(trace[TopJob])) =>
        /\ Has(trace[TopJob], "unlockFolder(false)")
        /\ subJobs = {}
        /\ NoOkCode(finishedCodes[TopJob])

\* C2: once a sub-job emitted finished with a code other than 200, no
\* sub-job is running or started, unlockFolder(false) was called, and no
\* status the parent emits with finished() is 200.
C2_SubJobFailureEndsInError ==
    failed # {} =>
        /\ Has(trace[TopJob], "unlockFolder(false)")
        /\ \A r \in Records : ~Running(r)
        /\ NoOkCode(finishedCodes[TopJob])

\* the parent's slotUpdateMetadataFinished(200) runs in the step
ParentUploadOkInStep ==
    /\ Len(trace'[TopJob]) > Len(trace[TopJob])
    /\ trace'[TopJob][Len(trace[TopJob]) + 1] = Event("uploadFinished", HttpOk)

\* start() of sub-job r is called in the step
StartedInStep(r) == ~Running(r) /\ (Running(r)' \/ r \in failed' \ failed)

\* C3: at most one sub-job is started and not finished at any moment; a
\* sub-job is started only in the step in which the parent's upload returns
\* 200 or in which another sub-job emits finished(200).
C3_OneSubJobAtATime ==
    /\ [](Cardinality({r \in Records : Running(r)}) <= 1)
    /\ [][\A r \in Records :
              StartedInStep(r) =>
                  \/ ParentUploadOkInStep
                  \/ \E q \in Records \ {r} : q \in succeeded' \ succeeded]_vars

C3_Witness ==
    /\ succeeded # {}
    /\ \E r \in Records \ succeeded : Running(r) /\ Has(trace[r], "fetchMetadata")

\* C4: with Add or Remove, unlockFolder(true) is called only after
\* uploadFinished(200) and with every scheduled sub-job finished with 200
\* (none left, none failed, none running); every status the job then emits
\* with finished() is the status folderUnlocked carried, and none is emitted
\* before folderUnlocked.
C4_UnlockTrueOnlyAfterSuccess ==
    (AddOrRemove /\ Has(trace[TopJob], "unlockFolder(true)")) =>
        LET tr == trace[TopJob]
        IN /\ \A k \in DOMAIN tr :
                  tr[k].ev = "unlockFolder(true)" =>
                      \E i \in 1..(k - 1) : tr[i] = Event("uploadFinished", HttpOk)
           /\ subJobs = {}
           /\ failed = {}
           /\ \A r \in Records : ~Running(r)
           /\ IF Has(tr, "folderUnlocked")
              THEN /\ finishedCodes[TopJob] # <<>>
                   /\ \A i \in DOMAIN finishedCodes[TopJob] :
                          HasCode(tr, "folderUnlocked", finishedCodes[TopJob][i])
              ELSE finishedCodes[TopJob] = <<>>

C4_Witness ==
    /\ AddOrRemove
    /\ succeeded = Records
    /\ Has(trace[TopJob], "unlockFolder(true)")
    /\ ~Has(trace[TopJob], "unlockFolder(false)")
    /\ finishedCodes[TopJob] = <<500>>

\* C5: once the fetch of a job finished with a status other than 200, the
\* folder-users job has emitted finished(-1) and nothing else, the
\* folder-metadata job has emitted finished(FatalError) and nothing else with
\* its item's status FatalError and the fetch's message as its error string,
\* and neither made any call after the fetch
\* answered (no addUser/removeUser, uploadMetadata, unlockFolder); a sub-job
\* whose fetch failed has finished in the same step.
C5_FetchFailureIsFatal ==
    /\ FetchFailed(trace[TopJob]) =>
           /\ finishedCodes[TopJob] = <<GenericError>>
           /\ trace[TopJob][Len(trace[TopJob])].ev = "fetchFinished"
    /\ \A r \in Records : ~FetchFailed(trace[r])
    /\ FetchFailed(mj.trace) =>
           /\ mj.finished = <<"FatalError">>
           /\ mj.itemStatus = "FatalError"
           /\ mj.errorString = "message"
           /\ mj.trace[Len(mj.trace)].ev = "fetchFinished"

C5_Witness == FetchFailed(trace[TopJob]) /\ FetchFailed(mj.trace)

\* C6: when, after a fetch that returned 200, the metadata is missing or
\* invalid or addUser/removeUser returned false, and the job has emitted
\* finished, it has called unlockFolder(false).
C6_UnlockBeforeMetadataError ==
    LET tr == trace[TopJob]
    IN (/\ HasCode(tr, "fetchFinished", HttpOk)
        /\ ~Has(tr, "uploadMetadata")
        /\ \/ folderMetadata[TopJob].state # "valid"
           \/ HasCode(tr, "addUser", 0)
           \/ HasCode(tr, "removeUser", 0)
        /\ finishedCodes[TopJob] # <<>>)
           => Has(tr, "unlockFolder(false)")

\* C7: with Add or Remove, once uploadMetadata was issued the job eventually
\* has called unlockFolder and emitted finished, when the handler answers
\* every request (so that every started sub-job finishes).
C7_UploadLeadsToUnlock ==
    (AddOrRemove /\ Has(trace[TopJob], "uploadMetadata"))
        ~> (HasUnlock(trace[TopJob]) /\ finishedCodes[TopJob] # <<>>)

C7_Witness ==
    /\ AddOrRemove
    /\ Has(trace[TopJob], "uploadMetadata")
    /\ failed # {}
    /\ Has(trace[TopJob], "unlockFolder(false)")
    /\ finishedCodes[TopJob] # <<>>

\* the requests for a certificate a job can make
CertificateCalls ==
    {"fetchCertificateFromKeyChain", "getUsersPublicKeyFromServer", "writeCertificate"}

\* C8: a job that adds a user issues fetchMetadata only while it holds a
\* certificate, and directly after start() (the caller's certificate), after the
\* keychain delivered one, or after certificateWriteComplete; it asks the
\* keychain only when the caller supplied none, the server only after the
\* keychain delivered none, and writes only what the server delivered; when
\* the server delivers none it emits finished(404) and never fetches.  Remove
\* and ReEncrypt make none of the certificate requests.
C8_CertificateBeforeFetch ==
    \A j \in Jobs :
        LET tr == trace[j]
        IN /\ operation[j] = "Add" =>
                  /\ Has(tr, "fetchMetadata") => folderUserCertificate[j] # "null"
                  /\ pending[j] = "keychain" => folderUserCertificate[j] = "null"
                  /\ \A i \in DOMAIN tr :
                         /\ tr[i].ev = "fetchCertificateFromKeyChain" =>
                                i > 1 /\ tr[i - 1].ev = "start"
                         /\ tr[i].ev = "getUsersPublicKeyFromServer" =>
                                i > 1 /\ tr[i - 1] = Event("certificateFetchedFromKeychain", 0)
                         /\ tr[i].ev = "writeCertificate" =>
                                i > 1 /\ tr[i - 1] = Event("certificatesFetchedFromServer", 1)
                         /\ tr[i].ev = "fetchMetadata" =>
                                i > 1 /\ tr[i - 1] \in
                                    {Event("start", 0),
                                     Event("certificateFetchedFromKeychain", 1),
                                     Event("certificateWriteComplete", 0)}
                  /\ HasCode(tr, "certificatesFetchedFromServer", 0) =>
                         /\ finishedCodes[j] = <<CertNotFound>>
                         /\ ~Has(tr, "fetchMetadata")
           /\ operation[j] \in {"Remove", "ReEncrypt"} =>
                  \A i \in DOMAIN tr : tr[i].ev \notin CertificateCalls

C8_Witness ==
    /\ operation[TopJob] = "Add"
    /\ Has(trace[TopJob], "certificateWriteComplete")
    /\ Has(trace[TopJob], "fetchMetadata")

\* C9: a ReEncrypt job never calls addUser, removeUser or unlockFolder and
\* has no sub-jobs; when its upload finished with status c, the job the
\* caller created has emitted finished(c) and nothing else.
C9_ReEncryptOnlyUploads ==
    \A j \in Jobs :
        operation[j] = "ReEncrypt" =>
            LET tr == trace[j]
            IN /\ ~Has(tr, "addUser") /\ ~Has(tr, "removeUser") /\ ~HasUnlock(tr)
               /\ unlockConnections[j] = 0 /\ ~unlockRunning[j]
               /\ j = TopJob =>
                      /\ subJobs = {}
                      /\ \A r \in Records : operation[r] = "None"
                      /\ \A i \in DOMAIN tr :
                             tr[i].ev = "uploadFinished" =>
                                 finishedCodes[j] = <<tr[i].code>>

C9_Witness ==
    /\ operation[TopJob] = "ReEncrypt"
    /\ HasCode(trace[TopJob], "uploadFinished", 500)
    /\ finishedCodes[TopJob] = <<500>>

\* a sub-job whose path is n emits finished(200) in the step
SucceededInStep(n) == \E r \in succeeded' \ succeeded : path[r] = n

\* C10 as stated: when a sub-job emits finished(200) and its path is a key of
\* the map, the entry is removed and the item's two statuses are the
\* sub-job's encryptionStatus(); in every other step the statuses stay.
C10_ItemsFollowSubJobs ==
    [][\A n \in Names :
           /\ (SucceededInStep(n) /\ subJobSyncItems[n] # "absent") =>
                  /\ subJobSyncItems'[n] = "absent"
                  /\ subJobSyncItems[n] = "item" =>
                         /\ itemStatus'[n] = lastEncryptionStatus'
                         /\ itemStatusRemote'[n] = lastEncryptionStatus'
           /\ ~SucceededInStep(n) =>
                  /\ itemStatus'[n] = itemStatus[n]
                  /\ itemStatusRemote'[n] = itemStatusRemote[n]]_vars

\* C10, amended: when a sub-job emits finished(200) and its path is a key of
\* the map whose value is an item (not null), the item's two statuses become
\* the sub-job's encryptionStatus() and the entry is removed; an entry whose
\* value is null stays; in every other step the statuses stay, and once the
\* job was started the map changes in no other step.
C10_ItemsOfNonNullEntries ==
    [][\A n \in Names :
           /\ (SucceededInStep(n) /\ subJobSyncItems[n] = "item") =>
                  /\ subJobSyncItems'[n] = "absent"
                  /\ itemStatus'[n] = lastEncryptionStatus'
                  /\ itemStatusRemote'[n] = lastEncryptionStatus'
           /\ (SucceededInStep(n) /\ subJobSyncItems[n] = "null") =>
                  subJobSyncItems'[n] = "null"
           /\ ~(SucceededInStep(n) /\ subJobSyncItems[n] = "item") =>
                  /\ itemStatus'[n] = itemStatus[n]
                  /\ itemStatusRemote'[n] = itemStatusRemote[n]
           /\ (~SucceededInStep(n) /\ pending[TopJob] # "notStarted") =>
                  subJobSyncItems'[n] = subJobSyncItems[n]]_vars

C10_Witness ==
    /\ failed # {}
    /\ \E n, m \in Names :
           /\ n # m
           /\ lastEncryptionStatus \in MetadataStatuses
           /\ itemStatus[n] = lastEncryptionStatus
           /\ itemStatusRemote[n] = lastEncryptionStatus
           /\ subJobSyncItems[n] = "absent"
           /\ subJobSyncItems[m] = "item"
           /\ itemStatus[m] = ItemInitialStatus
           /\ itemStatusRemote[m] = ItemInitialStatus

\* ------------------------------------------- properties of the local jobs
Answered(what, answer) ==
    \E i \in DOMAIN itemJob.calls :
        itemJob.calls[i].op = what /\ itemJob.calls[i].answer = answer

\* the job of the kind ran and its recursive removal failed part-way
RemovalFailed ==
    itemJob.kind = "Remove" /\ itemJob.ran /\ Answered("removeRecursively", FALSE)

\* the paths, relative to the sync root, the run removed from the disk
RemovedFromDisk ==
    {Mid(q, Len(LocalPath)) :
         q \in {k \in DOMAIN itemJob.before.disk \ DOMAIN propagator.disk :
                    StartsWith(k, LocalPath)}}

\* C11: after PropagateLocalRemove on a directory whose recursive removal
\* failed part-way, the journal holds no record of a path that was removed
\* from the disk
C11_RemovedPathsHaveNoRecord ==
    RemovalFailed => \A q \in RemovedFromDisk : q \notin DOMAIN propagator.journal

\* the paths, relative to the sync root, that are on the disk after the run
LeftOnDisk ==
    {Mid(q, Len(LocalPath)) : q \in {k \in DOMAIN propagator.disk : StartsWith(k, LocalPath)}}

\* C12: after PropagateLocalRemove on a directory whose recursive removal
\* failed part-way, the journal holds the record, as it was, of every path
\* that is still on the disk, the job reported NormalError and nothing
\* else, and it issued no commit
C12_KeptPathsKeepRecord ==
    RemovalFailed =>
        /\ \A q \in LeftOnDisk \cap DOMAIN itemJob.before.journal :
               /\ q \in DOMAIN propagator.journal
               /\ propagator.journal[q] = itemJob.before.journal[q]
        /\ itemJob.statuses = <<"NormalError">>
        /\ propagator.commits = <<>>

\* a nested file could not be removed while another entry was
C12_Witness ==
    /\ RemovalFailed
    /\ RemovedFromDisk # {}
    /\ \E n \in FileNames : Below(Below(ItemFile, n), NestedName) \in LeftOnDisk
    /\ ItemFile \in DOMAIN propagator.journal

\* the rename job ran on a directory
DirectoryRenameRan == itemJob.kind = "Rename" /\ itemJob.ran /\ IsDirectory(itemJob.item)

StrictlyBelow(dir, q) == q # dir /\ IsPrefixPathOrEqual(dir, q)

\* C13: after PropagateLocalRename of a directory reported Success, every
\* record that was strictly below the old path is at the path with the old
\* prefix replaced by the new one, no record is at or below the old path,
\* and _renamedDirectories maps the old path to the new one
C13_RecordsFollowRename ==
    LET old == itemJob.item.file
        new == itemJob.item.renameTarget
        was == itemJob.before.journal
    IN (DirectoryRenameRan
            /\ \E i \in DOMAIN itemJob.statuses : itemJob.statuses[i] = "Success") =>
           /\ \A q \in {k \in DOMAIN was : StrictlyBelow(old, k)} :
                  /\ Replace(q, Len(old), new) \in DOMAIN propagator.journal
                  /\ propagator.journal[Replace(q, Len(old), new)] = was[q]
           /\ \A q \in DOMAIN propagator.journal : ~IsPrefixPathOrEqual(old, q)
           /\ old \in DOMAIN propagator.renamedDirectories
           /\ propagator.renamedDirectories[old] = new

\* reading, deleting or rewriting a record failed during the walk over the
\* records below the old path
WalkFailed ==
    \E i \in DOMAIN itemJob.calls :
        LET c == itemJob.calls[i]
        IN \/ /\ c.op \in {"getFileRecord", "deleteFileRecord"}
              /\ c.answer = FALSE
              /\ StrictlyBelow(itemJob.item.file, c.arg)
           \/ c.op = "updateMetadata" /\ c.answer = "Error"

\* C14: when a journal call fails during the walk of a directory rename,
\* the status the job reports last is FatalError and it never reports
\* Success
C14_WalkFailureIsFatal ==
    (DirectoryRenameRan /\ WalkFailed) =>
        /\ itemJob.statuses # <<>>
        /\ itemJob.statuses[Len(itemJob.statuses)] = "FatalError"
        /\ \A i \in DOMAIN itemJob.statuses : itemJob.statuses[i] # "Success"

\* no call on the journal was refused in the run
NothingRefused ==
    \A i \in DOMAIN itemJob.calls :
        /\ itemJob.calls[i].op \in {"getFileRecord", "deleteFileRecord"}
               => itemJob.calls[i].answer
        /\ itemJob.calls[i].op = "updateMetadata"
               => itemJob.calls[i].answer # "Error"

\* without a refused journal call the records follow the rename
RenameWithoutRefusalMovesRecords == NothingRefused => C13_RecordsFollowRename

MkdirRan == itemJob.kind = "Mkdir" /\ itemJob.ran

\* C15: when PropagateLocalMkdir finishes with Success or Conflict the
\* directory is on the disk, the journal holds its record with the etag
\* "_invalid_" and was committed, and the status is Conflict exactly when
\* the instruction is CONFLICT; a failed journal write gives FatalError and
\* a locked placeholder SoftError, both without a commit
C15_MkdirSuccessMeansRecorded ==
    LET dir == itemJob.item.file
        last == itemJob.statuses[Len(itemJob.statuses)]
    IN (MkdirRan /\ itemJob.statuses # <<>>) =>
           /\ Len(itemJob.statuses) = 1
           /\ last \in {"Success", "Conflict"} =>
                  /\ FullLocalPath(dir) \in DOMAIN propagator.disk
                  /\ propagator.disk[FullLocalPath(dir)] = "dir"
                  /\ dir \in DOMAIN propagator.journal
                  /\ propagator.journal[dir].etag = EtagInvalid
                  /\ propagator.commits = <<"localMkdir">>
                  /\ last = "Conflict" <=> itemJob.item.instruction = "CONFLICT"
           /\ Answered("updateMetadata", "Error") =>
                  last = "FatalError" /\ propagator.commits = <<>>
           /\ Answered("updateMetadata", "Locked") =>
                  last = "SoftError" /\ propagator.commits = <<>>

\* a conflict was resolved and the directory made in the place of the file
C15_Witness ==
    /\ MkdirRan
    /\ itemJob.statuses = <<"Conflict">>
    /\ Answered("createConflict", TRUE)
    /\ ItemFile \in DOMAIN propagator.journal

\* the name of the directory clashed on a case-preserving filesystem
MkdirClashed ==
    MkdirRan /\ Answered("fsCasePreserving", TRUE) /\ Answered("localFileNameClash", TRUE)

\* the run made no directory and wrote no record
NothingMade ==
    /\ \A q \in DOMAIN propagator.disk :
           propagator.disk[q] = "dir" => q \in DOMAIN itemJob.before.disk
    /\ propagator.journal = itemJob.before.journal

\* C16 as stated: on a case-preserving filesystem a clash of the directory
\* name gives SoftError, no directory and no journal record
C16_ClashIsSoftError ==
    MkdirClashed => itemJob.statuses = <<"SoftError">> /\ NothingMade

\* C16 as the code has it: the clash gives NormalError, no directory and no
\* journal record
C16_ClashIsNormalError ==
    MkdirClashed => itemJob.statuses = <<"NormalError">> /\ NothingMade

\* the clash was found after the file in the way had been deleted
C16_Witness ==
    MkdirClashed /\ Answered("remove", TRUE) /\ itemJob.statuses # <<>>

\* C17: when _abortRequested is set as one of the three local jobs starts,
\* the filesystem, the journal, the pin states and _renamedDirectories stay
\* as they were, no collaborator is called and no status is reported
C17_AbortChangesNothing ==
    (itemJob.ran /\ itemJob.before.abortRequested) =>
        /\ propagator = itemJob.before
        /\ itemJob.statuses = <<>>
        /\ itemJob.calls = <<>>

\* a rename of a pinned directory with records below it was aborted
C17_Witness ==
    /\ itemJob.ran
    /\ itemJob.before.abortRequested
    /\ itemJob.kind = "Rename"
    /\ ItemFile \in DOMAIN propagator.pinStates
    /\ \E q \in DOMAIN propagator.journal : StrictlyBelow(ItemFile, q)

\* ------------------------- properties of UpdateE2eeFolderMetadataJob
\* C18: scheduleSelfOrChild calls start() once, on its first call, returns
\* true while the job is running, and returns false on every call made
\* after the job emitted finished
C18_ScheduleSelfOrChild ==
    /\ mj.starts = (IF mj.returned = <<>> /\ ~mj.crashed THEN 0 ELSE 1)
    /\ \A i \in DOMAIN mj.returned :
           mj.returned[i].value = (mj.returned[i].finished = 0)

\* what does hold: start() is called once, by the first call, and every call
\* made before finished was emitted returns true
StartsOnceAndReturnsTrueWhileRunning ==
    /\ mj.starts = (IF mj.returned = <<>> /\ ~mj.crashed THEN 0 ELSE 1)
    /\ \A i \in DOMAIN mj.returned :
           mj.returned[i].finished = 0 => mj.returned[i].value

\* ------------------------------------------- properties of FolderMetadata
\* a top-level FolderMetadata that is valid for the account: the account is
\* a folder user, its wrapped key is the encryption key, and the key
\* verifies against keyChecksums
IsValidTopLevel(m) ==
    /\ IsTopLevelFolder(m)
    /\ DavUser \in DOMAIN m.folderUsers
    /\ m.metadataKeyForEncryption # EmptyKey
    /\ DecryptData(m.folderUsers[DavUser].encryptedMetadataKey) = m.metadataKeyForEncryption
    /\ CalcSha256(m.metadataKeyForEncryption) \in m.keyChecksums

\* encryptedMetadata() of a valid top-level object was parsed
RoundTripped == fmHistory.reparsed /\ fmHistory.result /\ IsValidTopLevel(fm)

\* an entry without its initialization vector and authentication tag
ModuloIv(f) == [f EXCEPT !.initializationVector = "", !.authenticationTag = ""]

\* C19: parsing what encryptedMetadata() of a valid top-level FolderMetadata
\* returns, as the same account, gives the same files (names, per-file key
\* and mimetype of every entry), folderUsers and keyChecksums
C19_RoundTrip ==
    RoundTripped =>
        /\ {ModuloIv(f) : f \in fmHistory.parsed.files} = {ModuloIv(f) : f \in fm.files}
        /\ fmHistory.parsed.folderUsers = fm.folderUsers
        /\ fmHistory.parsed.keyChecksums = fm.keyChecksums

\* what does hold: users and checksums come back, and so does every entry
\* that is a file with a mimetype or a directory entry with nothing but its
\* two names
RoundTripOfUsersChecksumsAndPlainEntries ==
    RoundTripped =>
        /\ fmHistory.parsed.folderUsers = fm.folderUsers
        /\ fmHistory.parsed.keyChecksums = fm.keyChecksums
        /\ {f.encryptedFilename : f \in fmHistory.parsed.files}
               = {f.encryptedFilename : f \in fm.files}
        /\ \A f \in fm.files :
               (f.mimetype \notin {"", "inode/directory", "httpd/unix-directory"}
                    \/ f = EncryptedFile(f.encryptedFilename, f.originalFilename,
                                         "", "", "", ""))
                   => f \in fmHistory.parsed.files

\* addUser or removeUser returned true in this step
UserCallSucceeded ==
    /\ fmHistory'.call \in {"addUser", "removeUser"}
    /\ fmHistory'.result
    /\ fmHistory'.nextKey = fmHistory.nextKey + 1

\* the step replaced the encryption key and its checksum
KeyRotated ==
    /\ fm'.metadataKeyForEncryption # fm.metadataKeyForEncryption
    /\ fm'.metadataKeyForEncryption # EmptyKey
    /\ fm'.keyChecksums =
           (fm.keyChecksums \ {CalcSha256(fm.metadataKeyForEncryption)})
               \cup {CalcSha256(fm'.metadataKeyForEncryption)}

\* no checksum of a key that was rotated away is left
NoRotatedAwayChecksum ==
    \A n \in 1 .. (MaxKeys + 2) :
        CalcSha256(GenerateRandom(n, MetadataKeySize)) \in fm.keyChecksums
            => GenerateRandom(n, MetadataKeySize) = fm.metadataKeyForEncryption

\* C20: every successful addUser or removeUser on a top-level FolderMetadata
\* replaces the encryption key by a new one and leaves keyChecksums equal to
\* the previous set minus the checksum of the previous key plus the checksum
\* of the new key; after addUser(u, cert) then removeUser(u) the set holds no
\* checksum of a rotated-away key
C20_UserChangeRotatesKey ==
    /\ [][UserCallSucceeded => KeyRotated]_vars
    /\ [](((fmHistory.call = "removeUser" /\ fmHistory.result
              /\ fmHistory.previous.call = "addUser"
              /\ fmHistory.previous.userId = fmHistory.userId)
            => NoRotatedAwayChecksum))

\* removeUser(u1) returned true right after addUser(u1, cert) did
C20_Witness ==
    /\ IsTopLevelFolder(fm)
    /\ fmHistory.call = "removeUser" /\ fmHistory.result
    /\ fmHistory.userId = "u1"
    /\ fmHistory.previous = [call |-> "addUser", userId |-> "u1"]
    /\ "u1" \notin DOMAIN fm.folderUsers
    /\ fm.keyChecksums = {CalcSha256(fm.metadataKeyForEncryption)}

\* the key the holder of a folder user's certificate unwraps
Unwrapped(folderUser) ==
    IF folderUser.encryptedMetadataKey.for = PublicKey(FromPem(folderUser.certificatePem))
    THEN folderUser.encryptedMetadataKey.wrapped
    ELSE EmptyKey

\* the last call was an addUser or removeUser that returned true
AfterUserChange ==
    /\ IsTopLevelFolder(fm)
    /\ fmHistory.call \in {"addUser", "removeUser"}
    /\ fmHistory.result

\* C21: after a successful addUser or removeUser on a top-level
\* FolderMetadata the wrapped metadata key of every user in folderUsers
\* unwraps to the current encryption key, also when a wrapping failed
C21_WrappedKeysAreCurrent ==
    AfterUserChange =>
        \A u \in DOMAIN fm.folderUsers :
            Unwrapped(fm.folderUsers[u]) = fm.metadataKeyForEncryption

\* C29: in every state of a top-level FolderMetadata, after any sequence of
\* addUser and removeUser calls, the decryption key is the current
\* encryption key or the encryption key current before the last rotation
C29_DecryptionKeyLagsAtMostOne ==
    IsTopLevelFolder(fm) =>
        fm.metadataKeyForDecryption
            \in {fm.metadataKeyForEncryption, fmHistory.keyBefore}

\* ------------------------------ properties of a FolderMetadata's construction
\* verifyMetadataKey was called on an object of version 2.0
VerifiedVersion2 ==
    setup.last.op = "verifyMetadataKey" /\ setup.m.versionFromMetadata >= 2

\* C22: for version 2.0 metadata verifyMetadataKey(k) returns false for
\* every key k whose checksum is not in a non-empty keyChecksums, and true
\* for every key k when keyChecksums is empty
C22_VerifyMetadataKey ==
    VerifiedVersion2 =>
        /\ (setup.m.keyChecksums # {} /\ CalcSha256(setup.last.key) \notin setup.m.keyChecksums)
               => ~setup.last.result
        /\ setup.m.keyChecksums = {} => setup.last.result

\* what does hold: the answer is that of the first metadataKeySize bytes of
\* a key that has that many, and false for a shorter key
VerifyMetadataKeyOfLimitedLength ==
    VerifiedVersion2 =>
        setup.last.result =
            (/\ KeySize(setup.last.key) >= MetadataKeySize
             /\ \/ setup.m.keyChecksums = {}
                \/ CalcSha256(KeyLeft(setup.last.key, MetadataKeySize))
                       \in setup.m.keyChecksums)

\* the object FolderMetadata(account) constructed, before any call on it
DefaultConstructedUntouched == setup.kind = "default" /\ setup.last.op = "none"

C24_OneSetupComplete ==
    /\ [](setup.emitted <= 1)
    /\ <>[](setup.emitted = 1 /\ setup.timers = 0 /\ setup.pending = "none")

\* a sub-folder whose top-level metadata was fetched and set up has emitted
C24_Witness ==
    /\ setup.emitted = 1
    /\ ~IsTopLevelFolder(setup.m)
    /\ IsMetadataSetup(setup.top)
    /\ setup.pending = "none"

\* encryptedMetadata is called in this step
EncryptedMetadataCalled ==
    setup'.last.op = "encryptedMetadata" /\ setup'.nextKey = setup.nextKey + 1

\* what the returned document holds under its key
PlainTextOf(doc) == doc.metadata.data

\* C25: encryptedMetadata() returns empty when the encryption key is empty,
\* and when the folder is top-level and its user list or its checksum set
\* is empty; every non-empty output carries a users array and keyChecksums
\* if and only if the folder is top-level
C25_EncryptedMetadataFailures ==
    [][EncryptedMetadataCalled =>
           /\ setup.m.metadataKeyForEncryption = EmptyKey => setup'.last.doc.empty
           /\ (IsTopLevelFolder(setup.m)
                  /\ (DOMAIN setup.m.folderUsers = {} \/ setup.m.keyChecksums = {}))
                  => setup'.last.doc.empty
           /\ ~setup'.last.doc.empty =>
                  /\ (setup'.last.doc.users # {}) = IsTopLevelFolder(setup.m)
                  /\ (PlainTextOf(setup'.last.doc).keyChecksums # {})
                         = IsTopLevelFolder(setup.m)]_vars

\* a top-level folder with a key and no user was given no document
C25_Witness ==
    /\ setup.last.op = "encryptedMetadata"
    /\ ~setup.last.result
    /\ IsTopLevelFolder(setup.m)
    /\ setup.m.metadataKeyForEncryption # EmptyKey
    /\ setup.m.keyChecksums # {}
    /\ DOMAIN setup.m.folderUsers = {}

\* the version a document embeds: the document's own, else its metadata's
EmbeddedVersion(doc) == IF doc.version # Absent THEN doc.version ELSE doc.metadataVersion

\* a constructor was given an existing metadata and setupMetadata has run
ParsedExisting ==
    /\ setup.kind = "given"
    /\ ~setup.doc.empty
    /\ setup.pending = "none"
    /\ setup.last.op = "none"

\* C26: when setupExistingMetadata parses a document whose embedded version
\* is below 1.0 or absent, it aborts before any key unwrapping or file
\* parsing: no decryption key is recovered from the document, there are no
\* files, and migrationNeeded is false
C26_VersionBelow1Aborts ==
    (ParsedExisting /\ EmbeddedVersion(setup.doc) < 10) =>
        /\ setup.m.metadataKeyForDecryption # LegacyKey
        /\ setup.m.files = {}
        /\ ~setup.m.migrationNeeded

\* the metadata given to the constructor was a legacy document
ParsedLegacy == ParsedExisting /\ EmbeddedVersion(setup.doc) \in {10, 12}

\* C27: the legacy parse marks the metadata as needing migration only if a
\* metadata key was recovered and either the computed checksum equals the
\* server-supplied one, or the version is below 1.2, or the account skips
\* the checksum validation; on a mismatch for version 1.2 without that
\* configuration it stays false
C27_MigrationNeedsChecksum ==
    (ParsedLegacy /\ setup.m.migrationNeeded) =>
        /\ setup.m.metadataKeyForDecryption # EmptyKey
        /\ \/ CheckMetadataKeyChecksum(setup.m, setup.doc.metadataKey, setup.doc.checksum)
           \/ EmbeddedVersion(setup.doc) < 12
           \/ setup.skipValidation

\* a version 2.0 document of a top-level folder was parsed and the
\* account is not in its users array
ParsedTopLevelOfOthers ==
    /\ ParsedExisting
    /\ IsTopLevelFolder(setup.m)
    /\ EmbeddedVersion(setup.doc) = 20
    /\ setup.doc.users # {}
    /\ DavUser \notin {o.userId : o \in setup.doc.users}

\* C28: when a version 2.0 top-level document is parsed and the account's
\* user id is not in its users array, setup fails: no ciphertext is
\* decrypted and no file entry is added, whatever keys the caller supplied
C28_NotAUserMeansNoAccess ==
    ParsedTopLevelOfOthers => (~setup.m.decrypted /\ setup.m.files = {})


\* ------------------------------------------- properties of EncryptFolderJob
EncryptCallAt(what) == {i \in DOMAIN encryptJob.calls : encryptJob.calls[i] = what}

MetadataUploadIssued == EncryptCallAt("uploadMetadata") # {}

FlagAccepted == EncryptCallAt("flagSuccess") # {}

FlagRefused == encryptJob.state = "finished" /\ ~FlagAccepted

\* a refused encryption flag ends the job with (Error, NotEncrypted), nothing
\* written to the journal and nothing uploaded
FlagRefusedLeavesJournal ==
    FlagRefused =>
        /\ encryptJob.finished = <<[status |-> "Error", encryptionStatus |-> "NotEncrypted"]>>
        /\ encryptJob.writes = <<>>
        /\ encryptJob.journal = encryptJob.journalBefore
        /\ ~MetadataUploadIssued

\* C30: the metadata upload is issued only after the server accepted the
\* encryption flag and while the journal holds a valid record of the folder's
\* path marked Encrypted; a refused flag ends the job with
\* (Error, NotEncrypted), the journal untouched and nothing uploaded.
C30_UploadOnlyAfterFlagAndJournal ==
    /\ MetadataUploadIssued =>
           /\ \A u \in EncryptCallAt("uploadMetadata") :
                  \E f \in EncryptCallAt("flagSuccess") : f < u
           /\ encryptJob.journal = "Encrypted"
    /\ FlagRefusedLeavesJournal

\* ------------------------------------- properties of the jobs' completion
UnlockCalls(seq) ==
    {i \in DOMAIN seq : seq[i].ev \in {"unlockFolder(true)", "unlockFolder(false)"}}

\* the metadata job calls the handler's unlockFolder at most once in a run
MetadataJobUnlocksOnce == Cardinality(UnlockCalls(mj.trace)) <= 1

\* C31: neither job calls the handler's unlockFolder a second time in a run,
\* so none calls it while an unlock it requested is outstanding; this
\* includes the run in which scheduleSubJobs finds the metadata invalid.
C31_UnlockFolderOncePerRun ==
    /\ \A j \in Jobs : Cardinality(UnlockCalls(trace[j])) <= 1
    /\ MetadataJobUnlocksOnce

\* the directory records getFilesBelowPath visited in scheduleSubJobs
DirectoriesVisited(seq) ==
    {seq[i].code : i \in {k \in DOMAIN seq : seq[k].ev = "getFilesBelowPath"}}

\* what the parent's metadata and handler hold for its sub-jobs
FromParent ==
    LET metadata == folderMetadata[TopJob].keys
    IN [metadataKeyForEncryption |-> metadata.metadataKeyForEncryption,
        metadataKeyForDecryption |-> metadata.metadataKeyForDecryption,
        keyChecksums |-> metadata.keyChecksums \cup metadata.keyChecksumsRemoved,
        folderToken |-> folderToken[TopJob]]

\* the step in which the top job runs scheduleSubJobs on valid metadata
SubJobsScheduledInStep ==
    /\ DirectoriesVisited(trace[TopJob]) = {}
    /\ DirectoriesVisited(trace'[TopJob]) # {}

\* C32: scheduleSubJobs of an Add or Remove job makes one ReEncrypt sub-job
\* for every directory record the journal reports and none for a file
\* record, and every sub-job, started or not, holds the encryption key, the
\* decryption key and the key checksums (with the removed ones) of the
\* parent's metadata and the folder token of the parent's handler.
C32_SubJobsPerDirectoryWithKeys ==
    [][SubJobsScheduledInStep =>
          /\ operation[TopJob] \in {"Add", "Remove"}
          /\ \A k \in Records :
                 IF {n \in DirectoriesVisited(trace'[TopJob]) : k <= n} # {}
                 THEN /\ k \in subJobs'
                      /\ k \notin failed' =>
                             /\ operation'[k] = "ReEncrypt"
                             /\ jobKeys'[k] = FromParent'
                             /\ folderMetadata'[TopJob].keys.keyChecksums
                                    \subseteq jobKeys'[k].keyChecksums
                 ELSE k \notin subJobs' /\ operation'[k] = "None"]_vars

\* two sub-jobs were made, one is started and the other is not, and both
\* hold the two checksums and the token of the parent
C32_Witness ==
    /\ subJobs = {1, 2}
    /\ \E k \in subJobs : trace[k] # <<>>
    /\ \E k \in subJobs : trace[k] = <<>> /\ operation[k] = "ReEncrypt"
    /\ \A k \in subJobs :
           jobKeys[k].folderToken = "token" /\ Cardinality(jobKeys[k].keyChecksums) = 2

\* the metadata job called uploadMetadata on its handler
MjUploads == {i \in DOMAIN mj.trace : mj.trace[i].ev = "uploadMetadata"}

\* C33: UpdateE2eeFolderMetadataJob calls uploadMetadata at most once in a
\* run, and only after a fetch that returned 200, with a valid root encrypted
\* folder record and valid metadata of which moveFromFileDropToFiles()
\* returned true or encryptedMetadataNeedUpdate() returned true; its
\* parallelism() is WaitForFinished in every state.
C33_UploadOnlyWhenNeeded ==
    /\ Cardinality(MjUploads) <= 1
    /\ MjUploads # {} =>
           /\ HasCode(mj.trace, "fetchFinished", HttpOk)
           /\ HasCode(mj.trace, "getRootE2eFolderRecord", 1)
           /\ mj.metadata.state = "valid"
           /\ \/ HasCode(mj.trace, "moveFromFileDropToFiles", 1)
              \/ HasCode(mj.trace, "encryptedMetadataNeedUpdate", 1)
           /\ \A u \in MjUploads, i \in DOMAIN mj.trace :
                  mj.trace[i].ev \in {"fetchFinished", "getRootE2eFolderRecord",
                                      "moveFromFileDropToFiles",
                                      "encryptedMetadataNeedUpdate"} => i < u
    /\ MjParallelism(mj) = "WaitForFinished"

\* the upload was made for a metadata that needs an update although nothing
\* was moved out of the file drop, and the scheduler called the job again
C33_Witness ==
    /\ MjUploads # {}
    /\ HasCode(mj.trace, "moveFromFileDropToFiles", 0)
    /\ HasCode(mj.trace, "encryptedMetadataNeedUpdate", 1)
    /\ Len(mj.returned) = MaxCalls

\* ------------------------------------ properties of PropagateLocalRename's end
RenameRan == itemJob.kind = "Rename" /\ itemJob.ran

\* a journal read, delete or write, the rename on the disk or a pin-state
\* update failed in the run
RenameCallFailed ==
    \E i \in DOMAIN itemJob.calls :
        LET c == itemJob.calls[i]
        IN \/ /\ c.op \in {"getFileRecord", "deleteFileRecord", "getFilesBelowPath",
                           "rename", "setPinState"}
              /\ c.answer = FALSE
           \/ c.op = "updateMetadata" /\ c.answer = "Error"

\* C34: PropagateLocalRename commits the journal at most once in a run, with
\* no record left at or below the old path of a renamed directory, and not
\* at all in a run in which a journal read, delete or write, the rename on
\* the disk or a pin-state update failed.
C34_OneCommitAfterRewrite ==
    RenameRan =>
        /\ Len(propagator.commits) <= 1
        /\ propagator.commits # <<>> =>
               /\ ~RenameCallFailed
               /\ IsDirectory(itemJob.item) =>
                      \A q \in DOMAIN propagator.journal :
                          ~StrictlyBelow(itemJob.item.file, q)

\* ------------------------------------------ properties of the jobs' last signal
UsersJobStarted == operation[TopJob] # "None" /\ pending[TopJob] # "notStarted"

\* C35: a run of UpdateE2eeFolderUsersMetadataJob that was started emits
\* finished, and never emits it a second time.
C35_FinishedExactlyOnce ==
    /\ [](UsersJobStarted => Len(finishedCodes[TopJob]) <= 1)
    /\ (UsersJobStarted ~> Len(finishedCodes[TopJob]) = 1)

\* the calls of the run on the journal that failed, each reported with done()
JournalFailures ==
    {i \in DOMAIN itemJob.calls :
        \/ /\ itemJob.calls[i].op \in {"getFileRecord", "deleteFileRecord"}
           /\ itemJob.calls[i].answer = FALSE
        \/ itemJob.calls[i].op = "updateMetadata" /\ itemJob.calls[i].answer = "Error"}

\* the calls of the run that changed the journal
JournalWrites ==
    {i \in DOMAIN itemJob.calls :
        \/ itemJob.calls[i].op = "deleteFileRecord" /\ itemJob.calls[i].answer = TRUE
        \/ itemJob.calls[i].op = "updateMetadata" /\ itemJob.calls[i].answer = "Success"}

RenameReportedError ==
    \E i \in DOMAIN itemJob.statuses : itemJob.statuses[i] # "Success"

\* C36: PropagateLocalRename::start reports at most one status in a run, and
\* once it reported an error it writes nothing more to the journal, inserts
\* nothing into _renamedDirectories and does not commit.
C36_OneDoneAndNothingAfterError ==
    RenameRan =>
        /\ Len(itemJob.statuses) <= 1
        /\ \A e \in JournalFailures, w \in JournalWrites : w < e
        /\ RenameReportedError =>
               /\ propagator.commits = <<>>
               /\ propagator.renamedDirectories = itemJob.before.renamedDirectories

\* start() ran and found no valid root encrypted folder record: the handler
\* was not created
StartedWithoutRootRecord == mj.starts = 1 /\ mj.handler = "null"

\* C37: when UpdateE2eeFolderMetadataJob starts without a valid root
\* encrypted folder record, it finishes with FatalError and the item's error
\* string set, and does not go through the handler pointer that is null.
C37_NoRootRecordIsFatal ==
    StartedWithoutRootRecord =>
        /\ ~mj.crashed
        /\ mj.finished = <<"FatalError">>
        /\ mj.errorString # ""

\* the run called unlockFolder(false): it set the item's error string, and
\* asked the handler to unlock when the folder was locked
ReachedUnlockFolderFalse ==
    \/ Has(mj.trace, "unlockFolder(false)")
    \/ mj.errorString = "Failed to update folder metadata."

\* C38: UpdateE2eeFolderMetadataJob reports Success only after its metadata
\* upload returned 200, and a run that called unlockFolder(false) reports
\* nothing but FatalError, locked folder or not, whatever the unlock returns.
C38_SuccessOnlyAfterUpload ==
    /\ \A i \in DOMAIN mj.finished :
           mj.finished[i] = "Success" => HasCode(mj.trace, "uploadFinished", HttpOk)
    /\ ReachedUnlockFolderFalse =>
           \A i \in DOMAIN mj.finished : mj.finished[i] = "FatalError"

\* the job wrote the folder's record to the journal with the status Encrypted
MarkedEncryptedByJob ==
    \E i \in DOMAIN encryptJob.writes :
        encryptJob.writes[i] = [path |-> "folder", status |-> "Encrypted"]

\* C39: when EncryptFolderJob emits finished(Error, NotEncrypted) it has not
\* marked the folder's journal record Encrypted; a run that marked it
\* finishes with Success.
C39_ErrorLeavesRecordUnmarked ==
    \A i \in DOMAIN encryptJob.finished :
        /\ encryptJob.finished[i] = [status |-> "Error", encryptionStatus |-> "NotEncrypted"]
               => ~MarkedEncryptedByJob
        /\ MarkedEncryptedByJob => encryptJob.finished[i].status = "Success"

\* ------------------------------------------------ properties of the file drop
\* the file-drop section the first call decrypted
DecryptedFileDrop ==
    Base64DecodeDecryptAndGzipUnZip(fileDropMetadata.metadataKeyForEncryption,
                                    fileDropMetadata.before.fileDrop,
                                    fileDropMetadata.metadataNonce)

\* files() holds an entry of this encrypted name and this name
InFiles(files, encryptedFilename, originalFilename) ==
    \E f \in files : /\ f.encryptedFilename = encryptedFilename
                     /\ f.originalFilename = originalFilename

\* the first call returned true
FileDropMovedOnce ==
    /\ Len(fileDropMetadata.returned) >= 1
    /\ fileDropMetadata.returned[1]

\* C40: when moveFromFileDropToFiles returns true, every file entry and every
\* folder entry of the decrypted file drop with a non-empty name is in files()
\* afterwards and the file drop is empty; a second call returns false and
\* leaves files() unchanged
C40_FileDropMovedToFiles ==
    FileDropMovedOnce =>
        /\ \A n \in DOMAIN DecryptedFileDrop.files :
               DecryptedFileDrop.files[n].filename # ""
                   => InFiles(fileDropMetadata.filesWhenReturned[1], n,
                              DecryptedFileDrop.files[n].filename)
        /\ \A n \in DOMAIN DecryptedFileDrop.folders :
               DecryptedFileDrop.folders[n] # ""
                   => InFiles(fileDropMetadata.filesWhenReturned[1], n,
                              DecryptedFileDrop.folders[n])
        /\ ~IsFileDropPresent(fileDropMetadata)
        /\ Len(fileDropMetadata.returned) >= 2
               => /\ ~fileDropMetadata.returned[2]
                  /\ fileDropMetadata.filesWhenReturned[2]
                         = fileDropMetadata.filesWhenReturned[1]

====
